---------------------------- MODULE Spec2Model ----------------------------
(***************************************************************************)
(* Model of marketplace-ha/azure_had.py: the cluster failover daemon that  *)
(* moves VIPs, NAT rules, the cluster public IP and route next hops to the *)
(* local member when it becomes active.                                    *)
(*                                                                         *)
(* The cloud (the ARM REST facade `azure.arm`) is the environment: a store *)
(* of resources answering GET from its state and PUT with one of Answers.  *)
(***************************************************************************)
EXTENDS Integers, Sequences, FiniteSets, TLC

VARIABLES
    conf,          \* the module-level dict `conf` (a function from keys to values)
    templateName,  \* the module-level global `templateName`
    res,           \* cloud resources by id: NICs and route tables
    lb,            \* the load balancer; exists is FALSE when its GET answers 404
    pip,           \* whether the cluster public IP resource exists
    last,          \* what the last step did (requests sent, status writes, results)
    ticks,         \* ticks counted so far, and the first at which the VIP reconciler had no work left
    pc,            \* position of the daemon: "main", "select", "handlers", "exited", "crashed"
    sock           \* datagrams waiting on the control socket

vars == <<conf, templateName, res, lb, pip, last, ticks, pc, sock>>

-----------------------------------------------------------------------------
(* Bounds *)

\* answers the cloud may choose freely for the first PUT requests of a tick
MaxAnswers == 2
\* active ticks counted
MaxTicks == 6
\* datagrams that may wait on the socket
MaxQueue == 2
\* resources that may be out of provisioningState Succeeded at once
MaxNotReady == 1
\* requests followed when the api-version of single requests is looked at
MaxRequests == 3

-----------------------------------------------------------------------------
(* Names and their conversions *)

\* str.lower() on the names of the model's universe
Lower(s) ==
    CASE s = "Cluster-VIP" -> "cluster-vip"
      [] s = "Cluster-VIP-https" -> "cluster-vip-https"
      [] s = "Checkpoint-ssh" -> "checkpoint-ssh"
      [] s = "MICROSOFT.NETWORK/" -> "microsoft.network/"
      [] s = "Microsoft.Network/" -> "microsoft.network/"
      [] s = "Microsoft.Compute/" -> "microsoft.compute/"
      [] OTHER -> s

\* s.startswith('cluster-vip')
StartsWithClusterVip(s) == s \in {"cluster-vip", "cluster-vip-https", "cluster-vip2"}

\* s.startswith('checkpoint-')
StartsWithCheckpoint(s) == s \in {"checkpoint-ssh"}

Members == {"me", "peer"}
\* interface-name suffixes, in the insertion order of clusterNetworkInterfaces
CniOrder == <<"eth0", "eth1">>
Cnis == {CniOrder[i] : i \in DOMAIN CniOrder}

NicId(vm, cni) == <<vm, cni>>
NicIds == {NicId(vm, cni) : vm \in Members, cni \in Cnis}
RtIds == {<<"rt", "rt1">>}

Answers == {"200", "non200", "409ez", "err"}
ProvStates == {"Succeeded", "Updating", "Failed"}

\* dict.get(key) with a default
Get(d, k, dflt) == IF k \in DOMAIN d THEN d[k] ELSE dflt

\* sequence helpers
RECURSIVE SeqToSet(_)
SeqToSet(s) == IF s = <<>> THEN {} ELSE {Head(s)} \cup SeqToSet(Tail(s))

RemoveAt(s, i) == [j \in 1..(Len(s) - 1) |-> IF j < i THEN s[j] ELSE s[j + 1]]

-----------------------------------------------------------------------------
(* The cloud facade: one PUT request *)

\* The answer to the next PUT request of the tick, sent to resource rid: a
\* resource the caller may read but not write answers 403.
NextAnswer(w, rid) ==
    IF Get(w.res[rid], "access", "ok") = "readonly" THEN "403"
    ELSE IF Len(w.puts) < Len(w.ans) THEN w.ans[Len(w.puts) + 1] ELSE "200"

\* a cloud that stores the body although it answers 409
\* InvalidExtendedLocation
ArmPutStoredOnConflict(w, rid, body, what) ==
    [w EXCEPT !.puts = Append(@, [rid |-> rid, body |-> body, what |-> what,
                                  ans |-> NextAnswer(w, rid)]),
              !.res = IF NextAnswer(w, rid) \in {"200", "409ez"}
                      THEN [@ EXCEPT ![rid] = [body EXCEPT !.state = "Succeeded"]]
                      ELSE @]

\* azure.arm('PUT', id, body): the request is recorded; the cloud stores the
\* body when it answers 200.
ArmPut(w, rid, body, what) ==
    LET a == NextAnswer(w, rid)
        req == [rid |-> rid, body |-> body, what |-> what, ans |-> a]
    IN  [w EXCEPT !.puts = Append(@, req),
                  !.res = IF a = "200"
                          THEN [@ EXCEPT ![rid] = [body EXCEPT !.state = "Succeeded"]]
                          ELSE @]


-----------------------------------------------------------------------------
(* safe_arm_put and is_resource_ready *)

\* The edge-zone context safe_arm_put reads off the body: extendedLocation
\* when present, else properties.vnetExtendedLocation, else none.
ExtendedZoneContext(body) ==
    IF Get(body, "ext", "none") # "none" THEN body.ext
    ELSE IF Get(body, "vnetExt", "none") # "none" THEN body.vnetExt
    ELSE "none"

\* body_obj_enhanced: a copy of the body with extendedLocation set when the
\* body has none.
EnhancedBody(body, ctx) ==
    IF Get(body, "ext", "none") = "none" /\ "ext" \in DOMAIN body
    THEN [body EXCEPT !.ext = ctx]
    ELSE body

\* the outer handler re-raising every request error
StandardOutcomeNoFallback(a) ==
    CASE a = "200" -> "response"
      [] a = "non200" -> "None"
      [] OTHER -> "raise"

\* an answer whose code is not 200 raised to the caller
StandardOutcomeRaisesNon200(a) ==
    CASE a = "200" -> "response"
      [] a = "409ez" -> "body"
      [] OTHER -> "raise"

\* What the standard PUT's answer makes safe_arm_put do.
StandardOutcome(a) ==
    CASE a = "200" -> "response"
      [] a = "non200" -> "None"
      [] a = "409ez" -> "body"
      [] OTHER -> "raise"

\* The end of a call of safe_arm_put that started in world w and sent its
\* requests up to world wend.  kind is what the call hands back: "response"
\* (result[1]), "body" (body_obj), "None", or "raise".
Returned(w, wend, rid, body, description, kind) ==
    [w |-> [wend EXCEPT !.calls =
               Append(@, [rid |-> rid, body |-> body, description |-> description,
                          ctx |-> ExtendedZoneContext(body), kind |-> kind,
                          val |-> IF kind = "response" THEN wend.res[rid] ELSE body,
                          first |-> Len(w.puts) + 1, lastreq |-> Len(wend.puts),
                          at |-> Len(w.log)])],
     kind |-> kind]

\* the standard PUT was answered a2, leaving world w2
AfterStandard(w, rid, body, description, a2, w2) ==
    Returned(w, w2, rid, body, description, StandardOutcome(a2))

\* the enhanced PUT was answered a1, leaving world w1: 200 returns, a 409
\* InvalidExtendedLocation or another status goes on to the standard PUT,
\* any other error is re-raised (and re-raised again by the outer handler)
AfterEnhanced(w, rid, body, description, a1, w1) ==
    IF a1 = "200" THEN Returned(w, w1, rid, body, description, "response")
    ELSE IF a1 \in {"err", "403"} THEN Returned(w, w1, rid, body, description, "raise")
    ELSE AfterStandard(w, rid, body, description, NextAnswer(w1, rid),
                       ArmPut(w1, rid, body, "standard"))

\* safe_arm_put(resource_id, body_obj, description)
SafeArmPut(w, rid, body, description) ==
    IF ExtendedZoneContext(body) # "none"
    THEN AfterEnhanced(w, rid, body, description, NextAnswer(w, rid),
                       ArmPut(w, rid, EnhancedBody(body, ExtendedZoneContext(body)),
                              "enhanced"))
    ELSE AfterStandard(w, rid, body, description, NextAnswer(w, rid),
                       ArmPut(w, rid, body, "standard"))

\* is_resource_ready reporting ready right after its reset PUT
ResetResultReady(p) == [w |-> p.w, ready |-> TRUE, raised |-> p.kind = "raise"]

\* is_resource_ready after its reset PUT: not ready
ResetResult(p) == [w |-> p.w, ready |-> FALSE, raised |-> p.kind = "raise"]

Logged(w, e) == [w EXCEPT !.log = Append(@, e)]

\* the world with the question put to is_resource_ready noted
Asked(w, rid, r) == Logged(w, [ev |-> "ready", rid |-> rid, state |-> r.state])

\* is_resource_ready leaving a Failed resource alone
IsResourceReadyNoReset(w, rid, r) ==
    [w |-> Asked(w, rid, r), ready |-> r.state = "Succeeded", raised |-> FALSE]

\* is_resource_ready(r): Succeeded is ready; Failed is reset by a PUT of the
\* same object; anything else just waits.
IsResourceReady(w, rid, r) ==
    IF r.state = "Succeeded" THEN [w |-> Asked(w, rid, r), ready |-> TRUE, raised |-> FALSE]
    ELSE IF r.state = "Failed"
    THEN ResetResult(SafeArmPut(Asked(w, rid, r), rid, r, "resource reset"))
    ELSE [w |-> Asked(w, rid, r), ready |-> FALSE, raised |-> FALSE]

-----------------------------------------------------------------------------
(* The VIP reconciler: set_cluster_ips *)

\* get_nic_by_suffix(nics, suffix) on a member's NIC list: NIC names end in
\* the interface name.
GetNicBySuffix(vm, suffix) == NicId(vm, suffix)

\* get_cluster_ip_index(nic, name): first index whose name matches
\* case-insensitively, 0 for the code's -1
RECURSIVE IndexFrom(_, _, _)
IndexFrom(ipcs, name, i) ==
    IF i > Len(ipcs) THEN 0
    ELSE IF Lower(ipcs[i].name) = Lower(name) THEN i
    ELSE IndexFrom(ipcs, name, i + 1)

\* get_cluster_ip_index comparing the names as they are written
GetClusterIpIndexExact(ipcs, name) ==
    IF \E i \in DOMAIN ipcs : ipcs[i].name = name
    THEN CHOOSE i \in DOMAIN ipcs :
             ipcs[i].name = name /\ \A j \in 1..(i - 1) : ipcs[j].name # name
    ELSE 0

GetClusterIpIndex(ipcs, name) == IndexFrom(ipcs, name, 1)

\* remove_attached_vips finding nothing to remove
RemoveAttachedVipsKeeps(vip_names, ipcs, flag_put) == [ipcs |-> ipcs, flag_put |-> flag_put]

\* remove_attached_vips popping the NIC's first ipConfiguration when the NIC
\* holds a VIP
RemoveAttachedVipsFirst(vip_names, ipcs, flag_put) ==
    IF \E i \in DOMAIN vip_names : GetClusterIpIndex(ipcs, vip_names[i]) >= 1
    THEN [ipcs |-> Tail(ipcs), flag_put |-> TRUE]
    ELSE [ipcs |-> ipcs, flag_put |-> flag_put]

\* remove_attached_vips(vip_names, peer_nic, cni): pops, for each name in
\* turn, the first ipConfiguration carrying it.
RECURSIVE RemoveAttachedVips(_, _, _)
RemoveAttachedVips(vip_names, ipcs, flag_put) ==
    IF vip_names = <<>> THEN [ipcs |-> ipcs, flag_put |-> flag_put]
    ELSE IF GetClusterIpIndex(ipcs, Head(vip_names)) >= 1
    THEN RemoveAttachedVips(Tail(vip_names),
                            RemoveAt(ipcs, GetClusterIpIndex(ipcs, Head(vip_names))), TRUE)
    ELSE RemoveAttachedVips(Tail(vip_names), ipcs, flag_put)

\* pub_resource_id of a VIP record: a full path is used as it is, a bare
\* name is put under baseId.
PubResourceId(vip) ==
    IF Get(vip, "publicIpObj", "") = "" THEN "none"
    ELSE IF vip.publicIpObj = "/sub/rg/publicIPAddresses/pip-full" THEN vip.publicIpObj
    ELSE "baseId/Microsoft.Network/publicIPAddresses/" \o vip.publicIpObj

\* the ipConfiguration appended for a VIP
NewIpConfiguration(vip) ==
    [name |-> vip.name, pub |-> PubResourceId(vip), nat |-> {}]

\* The loop over the VIPs of one interface: appends each VIP my NIC lacks;
\* put tells whether the loop reached the PUT, which sits in the branch of
\* a missing VIP, under `index == len(vips) - 1`.
RECURSIVE AddVips(_, _, _)
AddVips(ipcs, vips, index) ==
    IF index > Len(vips) THEN [ipcs |-> ipcs, put |-> FALSE]
    ELSE IF GetClusterIpIndex(ipcs, vips[index].name) < 1
    THEN IF index = Len(vips)
         THEN [ipcs |-> Append(ipcs, NewIpConfiguration(vips[index])), put |-> TRUE]
         ELSE AddVips(Append(ipcs, NewIpConfiguration(vips[index])), vips, index + 1)
    ELSE AddVips(ipcs, vips, index + 1)

\* update_cluster_status_file(status)
UpdateClusterStatusFile(w, status) == [w EXCEPT !.status = Append(@, status)]

\* vip_names = [vip[NAME] for vip in vips]
VipNames(vips) == [i \in DOMAIN vips |-> vips[i].name]

\* The body of the loop over clusterNetworkInterfaces for one interface, in
\* the order of the code.  Each stage gives how the interface ended:
\* "raise", a StopIteration ("peer_not_ready", "peer_put", "my_not_ready",
\* "my_put"), or "done" (falls through to done += 1).

\* after safe_arm_put: an exception, or the StopIteration that follows
PutOutcome(p, how) == [w |-> p.w, how |-> IF p.kind = "raise" THEN "raise" ELSE how]

\* the loop over the VIPs has run on my NIC
VipAfterAdd(w, snap, entry, add) ==
    IF add.put
    THEN PutOutcome(SafeArmPut(w, GetNicBySuffix("me", entry.cni),
                               [snap[GetNicBySuffix("me", entry.cni)]
                                    EXCEPT !.ipcs = add.ipcs],
                               "my VIP addition"),
                    "my_put")
    ELSE [w |-> w, how |-> "done"]

\* the VIPs added whatever is_resource_ready(my_nic) answered
VipAfterMyReadyUngated(snap, entry, r2) ==
    IF r2.raised THEN [w |-> r2.w, how |-> "raise"]
    ELSE VipAfterAdd(r2.w, snap, entry,
                     AddVips(snap[GetNicBySuffix("me", entry.cni)].ipcs, entry.vips, 1))

\* is_resource_ready(my_nic) has answered r2
VipAfterMyReady(snap, entry, r2) ==
    IF r2.raised THEN [w |-> r2.w, how |-> "raise"]
    ELSE IF ~r2.ready THEN [w |-> r2.w, how |-> "my_not_ready"]
    ELSE VipAfterAdd(r2.w, snap, entry,
                     AddVips(snap[GetNicBySuffix("me", entry.cni)].ipcs, entry.vips, 1))

\* the peer removal without its status write
VipAfterRemoveSilent(w, snap, entry, rm) ==
    IF rm.flag_put
    THEN PutOutcome(SafeArmPut(w, GetNicBySuffix("peer", entry.cni),
                               [snap[GetNicBySuffix("peer", entry.cni)]
                                    EXCEPT !.ipcs = rm.ipcs],
                               "peer VIP removal"),
                    "peer_put")
    ELSE VipAfterMyReady(snap, entry,
                         IsResourceReady(w, GetNicBySuffix("me", entry.cni),
                                         snap[GetNicBySuffix("me", entry.cni)]))

\* remove_attached_vips has answered rm
VipAfterRemove(w, snap, entry, rm) ==
    IF rm.flag_put
    THEN PutOutcome(SafeArmPut(UpdateClusterStatusFile(w, "IN_PROGRESS"),
                               GetNicBySuffix("peer", entry.cni),
                               [snap[GetNicBySuffix("peer", entry.cni)]
                                    EXCEPT !.ipcs = rm.ipcs],
                               "peer VIP removal"),
                    "peer_put")
    ELSE VipAfterMyReady(snap, entry,
                         IsResourceReady(w, GetNicBySuffix("me", entry.cni),
                                         snap[GetNicBySuffix("me", entry.cni)]))

\* is_resource_ready(peer_nic) has answered r1
VipAfterPeerReady(snap, entry, r1) ==
    IF r1.raised THEN [w |-> r1.w, how |-> "raise"]
    ELSE IF ~r1.ready THEN [w |-> r1.w, how |-> "peer_not_ready"]
    ELSE VipAfterRemove(r1.w, snap, entry,
                        RemoveAttachedVips(VipNames(entry.vips),
                                           snap[GetNicBySuffix("peer", entry.cni)].ipcs,
                                           FALSE))

VipInterface(w, snap, entry) ==
    VipAfterPeerReady(snap, entry,
                      IsResourceReady(w, GetNicBySuffix("peer", entry.cni),
                                      snap[GetNicBySuffix("peer", entry.cni)]))

\* the world with the interface's outcome noted
NotedInterface(r, entry) == Logged(r.w, [ev |-> "cni", cni |-> entry.cni, how |-> r.how])

\* the loop leaving after its first interface whatever happened to it
VipLoopBreaksAfter(entries, i, done, r) ==
    [w |-> NotedInterface(r, entries[i]),
     done |-> IF r.how = "done" THEN done + 1 ELSE done,
     raised |-> r.how = "raise"]

VipLoopBreaks(w, snap, c, entries, i, done) ==
    IF i > Len(entries) THEN [w |-> w, done |-> done, raised |-> FALSE]
    ELSE VipLoopBreaksAfter(entries, i, done, VipInterface(w, snap, entries[i]))

\* for cni, vips in conf['clusterNetworkInterfaces'].items(): ...
\* VipLoopAfter is the rest of the loop once interface i ended as r.
RECURSIVE VipLoop(_, _, _, _, _, _)
RECURSIVE VipLoopAfter(_, _, _, _, _, _)
VipLoop(w, snap, c, entries, i, done) ==
    IF i > Len(entries) THEN [w |-> w, done |-> done, raised |-> FALSE]
    ELSE VipLoopAfter(snap, c, entries, i, done, VipInterface(w, snap, entries[i]))

\* the loop going on to the next interface whatever the switch mode
VipLoopAfterGoesOn(snap, c, entries, i, done, r) ==
    IF r.how = "raise"
    THEN [w |-> NotedInterface(r, entries[i]), done |-> done, raised |-> TRUE]
    ELSE VipLoop(NotedInterface(r, entries[i]), snap, c, entries, i + 1,
                 IF r.how = "done" THEN done + 1 ELSE done)

VipLoopAfter(snap, c, entries, i, done, r) ==
    IF r.how = "raise"
    THEN [w |-> NotedInterface(r, entries[i]), done |-> done, raised |-> TRUE]
    ELSE IF r.how = "done"
    THEN VipLoop(NotedInterface(r, entries[i]), snap, c, entries, i + 1, done + 1)
    ELSE IF Get(c, "interfaceSwitchMode", "") = "serial"
    THEN [w |-> NotedInterface(r, entries[i]), done |-> done, raised |-> FALSE]
    ELSE VipLoop(NotedInterface(r, entries[i]), snap, c, entries, i + 1, done)

\* return done != len(conf['clusterNetworkInterfaces'])
VipResult(n, l) == [w |-> l.w, raised |-> l.raised, ret |-> (l.done # n)]

\* set_cluster_ips(): the NICs are listed once (get_vm_nics) and every
\* interface works on that listing.  ret is the "work remains" result.
SetClusterIps(w, c) ==
    VipResult(Len(c["clusterNetworkInterfaces"]),
              VipLoop(w, w.res, c, c["clusterNetworkInterfaces"], 1, 0))

-----------------------------------------------------------------------------
(* The NAT-rule and public-IP reconcilers *)

\* get_vm_primary_nic(vm): a fresh GET of the member's primary NIC (eth0)
GetVmPrimaryNic(vm) == NicId(vm, "eth0")

\* set(id.lower() for id in ids)
LowerSet(ids) == {Lower(i) : i \in ids}

\* The ipConfigurations of a NIC with the first one's fields replaced.
WithFirstIpConf(nic, ipc) == [nic EXCEPT !.ipcs = [@ EXCEPT ![1] = ipc]]

\* What a reconciler hands back after its PUT: work remains
Wrote(p) == [w |-> p.w, raised |-> p.kind = "raise", ret |-> TRUE]

\* A reconciler leaving after is_resource_ready declined: work remains
Declined(r) == [w |-> r.w, raised |-> r.raised, ret |-> TRUE]

\* nat_rules: the load balancer's inbound NAT rules named cluster-vip*
ClusterVipRules(c) ==
    IF Get(c, "lbName", "") # "" /\ lb.exists
    THEN {r \in lb.inboundNatRules : StartsWithClusterVip(Lower(r))}
    ELSE {}

\* the rules associated with my NIC while the peer's NIC still holds them
NatAssociateMineFirst(w, target, my_nic, peer_nic) ==
    IF target \subseteq LowerSet(my_nic.ipcs[1].nat)
    THEN [w |-> w, raised |-> FALSE, ret |-> FALSE]
    ELSE Wrote(SafeArmPut(w, GetVmPrimaryNic("me"),
                          WithFirstIpConf(my_nic,
                              [my_nic.ipcs[1] EXCEPT !.nat =
                                  LowerSet(my_nic.ipcs[1].nat) \cup target]),
                          "my NIC association"))

\* both NICs are ready: compare the rule sets and write one NIC
NatAssociate(w, target, my_nic, peer_nic) ==
    IF target \subseteq LowerSet(my_nic.ipcs[1].nat)
    THEN [w |-> w, raised |-> FALSE, ret |-> FALSE]
    ELSE IF target \cap LowerSet(peer_nic.ipcs[1].nat) # {}
    THEN Wrote(SafeArmPut(w, GetVmPrimaryNic("peer"),
                          WithFirstIpConf(peer_nic,
                              [peer_nic.ipcs[1] EXCEPT !.nat =
                                  {r \in @ : ~StartsWithClusterVip(Lower(r))}]),
                          "peer NIC disassociation"))
    ELSE Wrote(SafeArmPut(w, GetVmPrimaryNic("me"),
                          WithFirstIpConf(my_nic,
                              [my_nic.ipcs[1] EXCEPT !.nat =
                                  LowerSet(my_nic.ipcs[1].nat) \cup target]),
                          "my NIC association"))

\* is_resource_ready(peer_nic) has answered r2
NatAfterPeerReady(target, my_nic, peer_nic, r2) ==
    IF r2.raised \/ ~r2.ready THEN Declined(r2)
    ELSE NatAssociate(r2.w, target, my_nic, peer_nic)

\* is_resource_ready(my_nic) has answered r1; the peer's NIC is fetched next
NatAfterMyReady(target, my_nic, r1) ==
    IF r1.raised \/ ~r1.ready THEN Declined(r1)
    ELSE NatAfterPeerReady(target, my_nic, r1.w.res[GetVmPrimaryNic("peer")],
                           IsResourceReady(r1.w, GetVmPrimaryNic("peer"),
                                           r1.w.res[GetVmPrimaryNic("peer")]))

\* set_lb_nat_rules().  A rule's id ends in its name; the model keeps that
\* last segment as the id.
SetLbNatRules(w) ==
    IF Get(w.conf, "lbName", "") # "" /\ ~lb.exists
    THEN [w |-> w, raised |-> FALSE, ret |-> FALSE]
    ELSE IF ClusterVipRules(w.conf) = {}
    THEN [w |-> w, raised |-> FALSE, ret |-> FALSE]
    ELSE NatAfterMyReady(LowerSet(ClusterVipRules(w.conf)),
                         w.res[GetVmPrimaryNic("me")],
                         IsResourceReady(w, GetVmPrimaryNic("me"),
                                         w.res[GetVmPrimaryNic("me")]))

\* public_ip_id: baseId + 'Microsoft.Network/publicIPAddresses/' + clusterName
PublicIpId == "baseId/Microsoft.Network/publicIPAddresses/cluster"

\* non_cp_nat_rules: the load balancer's inbound NAT rules not named
\* checkpoint*
NonCpNatRules(c) ==
    IF Get(c, "lbName", "") # "" /\ lb.exists
    THEN {r \in lb.inboundNatRules : ~StartsWithCheckpoint(r)}
    ELSE {}

\* both NICs are ready: compare the public address and the rule sets and
\* write one NIC
PublicAssociate(w, target, my_nic, peer_nic) ==
    IF (~pip \/ my_nic.ipcs[1].pub # "none")
       /\ target \subseteq LowerSet(my_nic.ipcs[1].nat)
    THEN [w |-> w, raised |-> FALSE, ret |-> FALSE]
    ELSE IF peer_nic.ipcs[1].pub # "none"
            \/ target \cap LowerSet(peer_nic.ipcs[1].nat) # {}
    THEN Wrote(SafeArmPut(w, GetVmPrimaryNic("peer"),
                          WithFirstIpConf(peer_nic,
                              [peer_nic.ipcs[1] EXCEPT
                                  !.pub = "none",
                                  !.nat = {r \in @ : StartsWithCheckpoint(r)}]),
                          "peer NIC public IP disassociation"))
    ELSE Wrote(SafeArmPut(w, GetVmPrimaryNic("me"),
                          WithFirstIpConf(my_nic,
                              [my_nic.ipcs[1] EXCEPT
                                  !.pub = IF pip THEN PublicIpId ELSE @,
                                  !.nat = LowerSet(my_nic.ipcs[1].nat) \cup target]),
                          "my NIC public IP association"))

\* is_resource_ready(peer_nic) has answered r2
PublicAfterPeerReady(target, my_nic, peer_nic, r2) ==
    IF r2.raised \/ ~r2.ready THEN Declined(r2)
    ELSE PublicAssociate(r2.w, target, my_nic, peer_nic)

\* is_resource_ready(my_nic) has answered r1; the peer's NIC is fetched next
PublicAfterMyReady(target, my_nic, r1) ==
    IF r1.raised \/ ~r1.ready THEN Declined(r1)
    ELSE PublicAfterPeerReady(target, my_nic, r1.w.res[GetVmPrimaryNic("peer")],
                              IsResourceReady(r1.w, GetVmPrimaryNic("peer"),
                                              r1.w.res[GetVmPrimaryNic("peer")]))

\* set_public_address()
SetPublicAddress(w) ==
    PublicAfterMyReady(LowerSet(NonCpNatRules(w.conf)),
                       w.res[GetVmPrimaryNic("me")],
                       IsResourceReady(w, GetVmPrimaryNic("me"),
                                       w.res[GetVmPrimaryNic("me")]))

-----------------------------------------------------------------------------
(* The route-table reconciler *)

\* list.index(x): the first position of x
RECURSIVE IndexOf(_, _, _)
IndexOf(s, x, i) ==
    IF i > Len(s) THEN 0 ELSE IF s[i] = x THEN i ELSE IndexOf(s, x, i + 1)

\* the rewrite taking my first address whatever the peer address was
RewriteRouteFirstAddress(route, addresses) ==
    IF route.nextHopType # "VirtualAppliance" THEN route
    ELSE IF route.nextHopIpAddress \notin SeqToSet(addresses.peer) THEN route
    ELSE IF /\ Len(route.addressPrefix) = 2
            /\ route.addressPrefix[1] \in SeqToSet(addresses.peer)
            /\ route.addressPrefix[2] = "32" THEN route
    ELSE [route EXCEPT !.nextHopIpAddress = addresses.me[1]]

\* the rewrite without the exception for the peer's /32 routes
RewriteRouteHostRoutesToo(route, addresses) ==
    IF route.nextHopType # "VirtualAppliance" THEN route
    ELSE IF route.nextHopIpAddress \notin SeqToSet(addresses.peer) THEN route
    ELSE [route EXCEPT !.nextHopIpAddress =
             addresses.me[IndexOf(addresses.peer, route.nextHopIpAddress, 1)]]

\* The loop over one table's routes: a VirtualAppliance route through a peer
\* address is sent through my address at the same position, unless its
\* prefix is a peer address with /32.
RewriteRoute(route, addresses) ==
    LET peers == SeqToSet(addresses.peer)
        cidr == route.addressPrefix
    IN  IF route.nextHopType # "VirtualAppliance" THEN route
        ELSE IF route.nextHopIpAddress \notin peers THEN route
        ELSE IF Len(cidr) = 2 /\ cidr[1] \in peers /\ cidr[2] = "32" THEN route
        ELSE [route EXCEPT !.nextHopIpAddress =
                 addresses.me[IndexOf(addresses.peer, route.nextHopIpAddress, 1)]]

\* dirty as soon as a table has a VirtualAppliance route
IsDirtyAnyAppliance(routes, addresses) ==
    \E i \in DOMAIN routes : routes[i].nextHopType = "VirtualAppliance"

\* dirty: some route passed every `continue` of the loop
IsDirty(routes, addresses) ==
    \E i \in DOMAIN routes :
        LET peers == SeqToSet(addresses.peer)
            cidr == routes[i].addressPrefix
        IN  /\ routes[i].nextHopType = "VirtualAppliance"
            /\ routes[i].nextHopIpAddress \in peers
            /\ ~(Len(cidr) = 2 /\ cidr[1] \in peers /\ cidr[2] = "32")

\* get_vnet_id(): the configured vnetId, else the discovered one, which is
\* stored in conf.
GetVnetId(w) ==
    IF Get(w.conf, "vnetId", "None") # "None" THEN w
    ELSE [w EXCEPT !.conf = [k \in DOMAIN @ \cup {"vnetId"} |->
                                IF k = "vnetId" THEN "vnet1" ELSE @[k]]]

VnetRid(name) == <<"vnet", name>>

\* the sequence without its repeated members
RECURSIVE Distinct(_)
Distinct(s) ==
    IF s = <<>> THEN <<>>
    ELSE LET front == Distinct(SubSeq(s, 1, Len(s) - 1))
         IN  IF s[Len(s)] \in SeqToSet(front) THEN front ELSE Append(front, s[Len(s)])

\* get_route_table_ids(), after the GET of the local VNet: the route tables
\* of its subnets, then those of each peered VNet whose peering is Connected
\* and whose GET succeeds.  The code collects the ids in a set; the walk
\* here is in the order the ids were added.
RECURSIVE PeeredTableIds(_, _, _)
PeeredTableIds(w, peerings, i) ==
    IF i > Len(peerings) THEN <<>>
    ELSE IF peerings[i].peeringState # "Connected"
    THEN PeeredTableIds(w, peerings, i + 1)
    ELSE IF w.res[peerings[i].remoteVirtualNetwork].access # "ok"
    THEN PeeredTableIds(w, peerings, i + 1)
    ELSE w.res[peerings[i].remoteVirtualNetwork].tables
             \o PeeredTableIds(w, peerings, i + 1)

GetRouteTableIds(w) ==
    LET vnet == w.res[VnetRid(w.conf["vnetId"])]
    IN  Distinct(vnet.tables \o PeeredTableIds(w, vnet.peerings, 1))

\* a handler that re-raises every request error
Code403Never(w) == FALSE

\* e.code in {401, 403} for the request error that has just been raised
Code403(w) == w.puts # <<>> /\ w.puts[Len(w.puts)].ans = "403"

\* the table with every route rewritten
RewrittenTable(route_table, addresses) ==
    [route_table EXCEPT !.routes = [j \in DOMAIN @ |-> RewriteRoute(@[j], addresses)]]

\* One pass of the loop over the route tables.  A 401/403 on the table's
\* GET or PUT is logged and the loop goes on.  RouteAfterReady is the rest
\* of the pass once is_resource_ready answered r, RouteAfterPut once
\* safe_arm_put answered p.
RECURSIVE RouteLoop(_, _, _, _)
RECURSIVE RouteAfterReady(_, _, _, _, _, _)
RECURSIVE RouteAfterPut(_, _, _, _)
RouteLoop(w, rids, i, todo) ==
    IF i > Len(rids) THEN [w |-> w, raised |-> FALSE, ret |-> todo]
    ELSE IF w.res[rids[i]].access = "denied" THEN RouteLoop(w, rids, i + 1, todo)
    ELSE IF w.res[rids[i]].access = "gone" THEN [w |-> w, raised |-> TRUE, ret |-> todo]
    ELSE RouteAfterReady(rids, i, todo, w.res[rids[i]], w.conf["addresses"],
                         IsResourceReady(w, rids[i], w.res[rids[i]]))

RouteAfterReady(rids, i, todo, route_table, addresses, r) ==
    IF r.raised /\ Code403(r.w) THEN RouteLoop(r.w, rids, i + 1, todo)
    ELSE IF r.raised THEN [w |-> r.w, raised |-> TRUE, ret |-> todo]
    ELSE IF ~r.ready THEN RouteLoop(r.w, rids, i + 1, TRUE)
    ELSE IF IsDirty(route_table.routes, addresses)
    THEN RouteAfterPut(rids, i, todo,
                       SafeArmPut(r.w, rids[i], RewrittenTable(route_table, addresses),
                                  "route table update"))
    ELSE RouteLoop(r.w, rids, i + 1, todo)

RouteAfterPut(rids, i, todo, p) ==
    IF p.kind = "raise" /\ Code403(p.w) THEN RouteLoop(p.w, rids, i + 1, todo)
    ELSE IF p.kind = "raise" THEN [w |-> p.w, raised |-> TRUE, ret |-> todo]
    ELSE RouteLoop(p.w, rids, i + 1, todo)

\* the pass once get_vnet_id() left world w: a failed GET of the local VNet
\* is raised out of the pass
RouteTablesOf(w) ==
    IF w.res[VnetRid(w.conf["vnetId"])].access # "ok"
    THEN [w |-> w, raised |-> TRUE, ret |-> FALSE]
    ELSE RouteLoop(w, GetRouteTableIds(w), 1, FALSE)

\* set_routing_tables()
SetRoutingTables(w) == RouteTablesOf(GetVnetId(w))

-----------------------------------------------------------------------------
(* The orchestrator and the membership poller *)

\* `todo = f()`: the last reconciler's result alone
RunLastWins(t, name, r) ==
    [w |-> Logged(r.w, [ev |-> "call", f |-> name, raised |-> r.raised, ret |-> r.ret,
                        requests |-> Len(r.w.puts)]),
     raised |-> r.raised,
     todo |-> IF r.raised THEN t.todo ELSE r.ret]

\* One reconciler call of setLocalActive: `todo |= f()`.  t carries the
\* world, whether an exception is in flight, and todo so far.
Run(t, name, r) ==
    [w |-> Logged(r.w, [ev |-> "call", f |-> name, raised |-> r.raised, ret |-> r.ret,
                        requests |-> Len(r.w.puts)]),
     raised |-> r.raised,
     todo |-> IF r.raised THEN t.todo ELSE (t.todo \/ r.ret)]

\* setLocalActive going on to the next reconciler after an exception
ThenRegardless(t, name) ==
    CASE name = "set_cluster_ips" -> Run(t, name, SetClusterIps(t.w, t.w.conf))
      [] name = "set_lb_nat_rules" -> Run(t, name, SetLbNatRules(t.w))
      [] name = "set_public_address" -> Run(t, name, SetPublicAddress(t.w))
      [] name = "set_routing_tables" -> Run(t, name, SetRoutingTables(t.w))

Then(t, name) ==
    IF t.raised THEN t
    ELSE CASE name = "set_cluster_ips" -> Run(t, name, SetClusterIps(t.w, t.w.conf))
           [] name = "set_lb_nat_rules" -> Run(t, name, SetLbNatRules(t.w))
           [] name = "set_public_address" -> Run(t, name, SetPublicAddress(t.w))
           [] name = "set_routing_tables" -> Run(t, name, SetRoutingTables(t.w))

\* setLocalActive treating stack-ha like the other templates
DispatchStackPublic(tn, c) ==
    IF tn \in {"ha", "ha_terraform"} THEN <<"set_cluster_ips">>
    ELSE IF "clusterNetworkInterfaces" \in DOMAIN c
    THEN <<"set_routing_tables", "set_cluster_ips", "set_lb_nat_rules">>
    ELSE <<"set_routing_tables", "set_public_address">>

\* the reconcilers setLocalActive calls, in order
Dispatch(tn, c) ==
    IF tn \in {"ha", "ha_terraform"} THEN <<"set_cluster_ips">>
    ELSE IF "clusterNetworkInterfaces" \in DOMAIN c
    THEN <<"set_routing_tables", "set_cluster_ips", "set_lb_nat_rules">>
    ELSE IF tn # "stack-ha" THEN <<"set_routing_tables", "set_public_address">>
    ELSE <<"set_routing_tables">>

RECURSIVE RunAll(_, _)
RunAll(t, names) ==
    IF names = <<>> THEN t ELSE RunAll(Then(t, Head(names)), Tail(names))

\* conf[k] = v
SetKey(c, k, v) == [x \in DOMAIN c \cup {k} |-> IF x = k THEN v ELSE c[x]]

\* the end of setLocalActive when no exception left the reconcilers: wd is
\* the world after the DONE decision
Stored(todo, wd) ==
    [w |-> [Logged(wd, [ev |-> "end", raised |-> FALSE, todo |-> todo])
                EXCEPT !.conf = SetKey(@, "todo", todo)],
     raised |-> FALSE]

\* setLocalActive writing DONE whenever no work remains
FinishAlwaysDone(t) ==
    IF t.raised
    THEN [w |-> Logged(t.w, [ev |-> "end", raised |-> TRUE, todo |-> t.todo]),
          raised |-> TRUE]
    ELSE Stored(t.todo, IF ~t.todo THEN UpdateClusterStatusFile(t.w, "DONE") ELSE t.w)

\* setLocalActive writing DONE after a true conf['todo'] whatever the
\* reconcilers reported
FinishDoneWhileWorkRemains(t) ==
    IF t.raised
    THEN [w |-> Logged(t.w, [ev |-> "end", raised |-> TRUE, todo |-> t.todo]),
          raised |-> TRUE]
    ELSE Stored(t.todo, IF Get(t.w.conf, "todo", FALSE)
                        THEN UpdateClusterStatusFile(t.w, "DONE")
                        ELSE t.w)

\* the reconcilers have run and left t
Finish(t) ==
    IF t.raised
    THEN [w |-> Logged(t.w, [ev |-> "end", raised |-> TRUE, todo |-> t.todo]),
          raised |-> TRUE]
    ELSE Stored(t.todo, IF Get(t.w.conf, "todo", FALSE) /\ ~t.todo
                        THEN UpdateClusterStatusFile(t.w, "DONE")
                        ELSE t.w)

\* setLocalActive(): raised tells whether the exception left the function,
\* in which case neither DONE nor conf['todo'] is written.
SetLocalActive(w) ==
    Finish(RunAll([w |-> Logged(w, [ev |-> "setLocalActive"]),
                   raised |-> FALSE, todo |-> FALSE],
                  Dispatch(w.tn, w.conf)))

\* What `cphaprob stat` prints for the local member, and "fail" for a
\* probe that cannot be run.
ProbeOutputs == {"ACTIVE", "STANDBY", "no local line", "fail"}

\* The regex of poll applied to the output, group 2 lower-cased; 'Unknown'
\* when nothing matches.
ParseState(out) ==
    CASE out \in {"ACTIVE", "ACTIVE ATTENTION", "ACTIVE(!)"} -> "active"
      [] out = "STANDBY" -> "standby"
      [] out = "DOWN" -> "down"
      [] OTHER -> "Unknown"

\* the world with the poll noted
Probed(w, state) == Logged(w, [ev |-> "poll", state |-> state])

\* poll reconciling whatever state the probe reports
PollUngated(w, out) ==
    IF out = "fail" THEN Probed(w, "none")
    ELSE SetLocalActive(Probed(w, ParseState(out))).w

\* poll(): every exception ends here.
Poll(w, out) ==
    IF out = "fail" THEN Probed(w, "none")
    ELSE IF ParseState(out) \in {"active", "active attention"}
    THEN SetLocalActive(Probed(w, ParseState(out))).w
    ELSE UpdateClusterStatusFile(Probed(w, ParseState(out)), "NOT_STARTED")

-----------------------------------------------------------------------------
(* Configuration reload *)

Addresses == [me |-> <<"10.0.1.4">>, peer |-> <<"10.0.1.5">>]

\* update_conf_structure_multiple_vip(cluster_nics): an interface given in
\* the old format, a list of addresses, becomes one VIP named cluster-vip.
UpdateConfStructureMultipleVip(cluster_nics) ==
    [i \in DOMAIN cluster_nics |->
        LET e == cluster_nics[i]
        IN  IF "legacy" \notin DOMAIN e THEN e
            ELSE IF Len(e.legacy) = 0 THEN [cni |-> e.cni, vips |-> <<>>]
            ELSE [cni |-> e.cni,
                  vips |-> <<[name |-> "cluster-vip", privateIpAddr |-> e.legacy[1],
                              publicIpObj |-> IF Len(e.legacy) > 1 THEN e.legacy[2]
                                              ELSE ""]>>]]

\* a reload that keeps nothing of the previous configuration
MergeReplaces(old, c) == c

\* for k in c: conf[k] = c[k]
Merge(old, c) == [k \in DOMAIN old \cup DOMAIN c |-> IF k \in DOMAIN c THEN c[k] ELSE old[k]]

\* the configuration after the normalisation of clusterNetworkInterfaces,
\* the addresses of the interfaces and the vnetId
Completed(merged, c) ==
    SetKey(SetKey(SetKey(merged, "clusterNetworkInterfaces",
              UpdateConfStructureMultipleVip(merged["clusterNetworkInterfaces"])),
              "addresses", Addresses),
              "vnetId", Get(c, "vnetId", "None"))

\* a reload that goes on to poll without clusterNetworkInterfaces
ReconfMergedLenient(w1, load, out) ==
    IF "clusterNetworkInterfaces" \notin DOMAIN w1.conf
    THEN [w |-> Poll([w1 EXCEPT !.conf = SetKey(SetKey(@, "addresses", Addresses),
                                                "vnetId", Get(load.c, "vnetId", "None"))],
                     out),
          raised |-> FALSE]
    ELSE IF load.fails = "subscription"
    THEN [w |-> [w1 EXCEPT !.conf = Completed(@, load.c)], raised |-> TRUE]
    ELSE [w |-> Poll([w1 EXCEPT !.conf = Completed(@, load.c)], out), raised |-> FALSE]

\* reconf() from the merge on: w1 is the world holding the merged
\* configuration
ReconfMerged(w1, load, out) ==
    IF "clusterNetworkInterfaces" \notin DOMAIN w1.conf
    THEN [w |-> w1, raised |-> TRUE]
    ELSE IF load.fails = "subscription"
    THEN [w |-> [w1 EXCEPT !.conf = Completed(@, load.c)], raised |-> TRUE]
    ELSE [w |-> Poll([w1 EXCEPT !.conf = Completed(@, load.c)], out), raised |-> FALSE]

\* reconf().  load is what the outside gives this run: the dumped
\* configuration c and the step that fails, if any.
Reconf(w, load, out) ==
    IF load.fails = "dump" THEN [w |-> Logged(w, [ev |-> "reconf"]), raised |-> TRUE]
    ELSE ReconfMerged(Logged([w EXCEPT !.conf = Merge(w.conf, load.c),
                                       !.tn = Lower(Get(Merge(w.conf, load.c),
                                                        "templateName", ""))],
                             [ev |-> "reconf", c |-> load.c]),
                      load, out)

-----------------------------------------------------------------------------
(* Initial configurations and cloud states *)

Vip(name) == [name |-> name, privateIpAddr |-> "10.0.0.10", publicIpObj |-> ""]

PrimaryIpc(pub, nat) == [name |-> "ipconfig1", pub |-> pub, nat |-> nat]
VipIpc(name) == [name |-> name, pub |-> "none", nat |-> {}]

Nic(ipcs, ext, vnetExt) ==
    [kind |-> "nic", ipcs |-> ipcs, state |-> "Succeeded", ext |-> ext, vnetExt |-> vnetExt]

RouteTable(routes) ==
    [kind |-> "rt", routes |-> routes, state |-> "Succeeded", access |-> "ok"]

Route(type, hop, prefix) ==
    [nextHopType |-> type, nextHopIpAddress |-> hop, addressPrefix |-> prefix]

MyAddr == Addresses.me[1]
PeerAddr == Addresses.peer[1]
TrafficRoute == Route("VirtualAppliance", PeerAddr, <<"0.0.0.0", "0">>)
PeerHostRoute == Route("VirtualAppliance", PeerAddr, <<PeerAddr, "32">>)
MovedRoute == Route("VirtualAppliance", MyAddr, <<"0.0.0.0", "0">>)
InternetRoute == Route("Internet", "None", <<"8.8.8.8", "32">>)

\* where an ipConfiguration name sits at the start
Places == {"none", "me", "peer", "both"}

\* the ipConfigurations after the primary one of a member's NIC
Extra(vm, name, place) ==
    IF place = vm \/ place = "both" THEN <<VipIpc(name)>> ELSE <<>>

\* the two members' NICs of one interface, with the cluster VIP written
\* cloudName in the cloud
NicPair(cloudName, p1, p2, prim, ez) ==
    [vm \in Members |->
        Nic(<<prim[vm]>> \o Extra(vm, cloudName, p1) \o Extra(vm, "vip2", p2),
            ez[vm].ext, ez[vm].vnetExt)]

PlainPrimary == [vm \in Members |-> PrimaryIpc("none", {})]
NoZone == [vm \in Members |-> [ext |-> "none", vnetExt |-> "none"]]
PlainPair == NicPair("cluster-vip", "none", "none", PlainPrimary, NoZone)

\* a virtual network: the route tables of its subnets and its peerings
Vnet(tables, peerings) ==
    [state |-> "Succeeded", access |-> "ok", tables |-> tables, peerings |-> peerings]

\* The cloud: the members' NICs, route table rt on the one subnet of the
\* local VNet, which has no peering.
Cloud(eth0, eth1, rt) ==
    [rid \in NicIds \cup RtIds \cup {VnetRid("vnet1")} |->
        IF rid \in RtIds THEN rt
        ELSE IF rid = VnetRid("vnet1") THEN Vnet(<<<<"rt", "rt1">>>>, <<>>)
        ELSE IF rid[2] = "eth0" THEN eth0[rid[1]] ELSE eth1[rid[1]]]

BaseConf(entries, mode) ==
    [clusterNetworkInterfaces |-> entries, interfaceSwitchMode |-> mode,
     addresses |-> Addresses, vnetId |-> "None"]

Entry(cni, vips) == [cni |-> cni, vips |-> vips]
OneVip == <<Vip("cluster-vip")>>
TwoVips == <<Vip("cluster-vip"), Vip("vip2")>>

Lb(rules) == [exists |-> TRUE, inboundNatRules |-> rules]
AbsentLb == [exists |-> FALSE, inboundNatRules |-> {}]
NoLb == Lb({})

EmptyLast ==
    [kind |-> "init", events |-> {}, handlers |-> <<>>, state |-> "none",
     puts |-> <<>>, calls |-> <<>>, status |-> <<>>, log |-> <<>>,
     pre |-> <<>>, confBefore |-> <<>>, idle |-> FALSE, applied |-> FALSE,
     swallowed |-> {}, swallowedBefore |-> {}, drained |-> 0,
     aborted |-> FALSE, abortedBefore |-> FALSE]

\* where the cluster VIP of eth0 sits and how the cloud spells it
VipPlacements ==
    {[name |-> "cluster-vip", place |-> p] : p \in Places}
    \cup {[name |-> "Cluster-VIP", place |-> "peer"]}

\* Template ha, one interface with two VIPs: any placement of both.
InitVipOne ==
    /\ templateName = "ha"
    /\ conf = BaseConf(<<Entry("eth0", TwoVips)>>, "parallel")
    /\ \E v1 \in VipPlacements, p2 \in Places :
           res = Cloud(NicPair(v1.name, v1.place, p2, PlainPrimary, NoZone), PlainPair,
                       RouteTable(<<MovedRoute>>))

\* Template ha, two interfaces with one VIP each, serial or not: any
\* placement of the two VIPs.  Or, serial, a first interface with two VIPs
\* of which the local NIC holds the second only.
InitVipTwo ==
    /\ templateName = "ha"
    /\ \/ /\ \E mode \in {"serial", "parallel"} :
                 conf = BaseConf(<<Entry("eth0", OneVip), Entry("eth1", OneVip)>>, mode)
          /\ \E p1 \in Places, q1 \in Places :
                 res = Cloud(NicPair("cluster-vip", p1, "none", PlainPrimary, NoZone),
                             NicPair("cluster-vip", q1, "none", PlainPrimary, NoZone),
                             RouteTable(<<MovedRoute>>))
       \/ /\ conf = BaseConf(<<Entry("eth0", TwoVips), Entry("eth1", OneVip)>>, "serial")
          /\ \E q1 \in {"none", "peer"} :
                 res = Cloud(NicPair("cluster-vip", "none", "me", PlainPrimary, NoZone),
                             NicPair("cluster-vip", q1, "none", PlainPrimary, NoZone),
                             RouteTable(<<MovedRoute>>))

Zones == {"none", "EdgeZone"}

\* Template ha or ha_terraform, one interface, NICs in an edge zone.
InitZone ==
    /\ templateName \in {"ha", "ha_terraform"}
    /\ conf = BaseConf(<<Entry("eth0", OneVip)>>, "parallel")
    /\ \E p1 \in {"none", "peer"}, myExt \in Zones, myVnetExt \in Zones, peerExt \in Zones :
           res = Cloud(NicPair("cluster-vip", p1, "none", PlainPrimary,
                               [vm \in Members |->
                                   IF vm = "me" THEN [ext |-> myExt, vnetExt |-> myVnetExt]
                                   ELSE [ext |-> peerExt, vnetExt |-> "none"]]),
                       PlainPair, RouteTable(<<MovedRoute>>))

InitVip ==
    /\ InitVipOne \/ InitVipTwo \/ InitZone
    /\ lb = NoLb
    /\ pip = FALSE

NatPlaces == {{}, {"Cluster-VIP-https"}, {"cluster-vip-https", "web"}}

LbChoices == {AbsentLb, NoLb, Lb({"cluster-vip-https", "checkpoint-ssh", "web"}),
              Lb({"Cluster-VIP-https", "web"})}

\* Another template with clusterNetworkInterfaces: routes, VIPs, NAT rules.
InitNat ==
    /\ templateName = "ha_lb"
    /\ \E p1 \in {"me", "peer"} :
        /\ conf = SetKey(BaseConf(<<Entry("eth0", OneVip)>>, "parallel"),
                         "lbName", "frontend-lb")
        /\ \E mine \in NatPlaces, theirs \in NatPlaces :
               res = Cloud(NicPair("cluster-vip", p1, "none",
                                   [vm \in Members |->
                                       PrimaryIpc("none", IF vm = "me" THEN mine ELSE theirs)],
                                   NoZone),
                           PlainPair, RouteTable(<<MovedRoute>>))
    /\ lb \in LbChoices
    /\ pip = FALSE

PublicIpId2 == "baseId/Microsoft.Network/publicIPAddresses/other"
PubChoices == {"none", PublicIpId, PublicIpId2}

\* No clusterNetworkInterfaces in conf: routes and the cluster public IP.
InitPublic ==
    /\ templateName = "single"
    /\ conf = [lbName |-> "frontend-lb", addresses |-> Addresses, vnetId |-> "vnet1",
               clusterName |-> "cluster"]
    /\ \E theirs \in {{}, {"checkpoint-ssh", "web"}}, mypub \in PubChoices,
          theirpub \in PubChoices :
           res = Cloud(NicPair("cluster-vip", "none", "none",
                               [vm \in Members |->
                                   IF vm = "me" THEN PrimaryIpc(mypub, {})
                                   ELSE PrimaryIpc(theirpub, theirs)],
                               NoZone),
                       PlainPair, RouteTable(<<MovedRoute>>))
    /\ lb \in {AbsentLb, Lb({"checkpoint-ssh", "web"})}
    /\ pip \in BOOLEAN

RouteLists == {<<>>, <<TrafficRoute>>, <<PeerHostRoute>>, <<TrafficRoute, PeerHostRoute>>,
               <<InternetRoute, TrafficRoute>>, <<MovedRoute, PeerHostRoute>>}

\* Route tables in every shape, the rest converged; template stack-ha
\* without clusterNetworkInterfaces runs the route reconciler alone.
InitRoutes ==
    /\ \/ /\ templateName \in {"ha_lb", "stack-ha"}
          /\ conf = BaseConf(<<Entry("eth0", OneVip)>>, "parallel")
       \/ /\ templateName = "stack-ha"
          /\ conf = [addresses |-> Addresses, vnetId |-> "vnet1"]
    /\ \E routes \in RouteLists, access \in {"ok", "denied"} :
           res = Cloud(NicPair("cluster-vip", "me", "none", PlainPrimary, NoZone),
                       PlainPair, [RouteTable(routes) EXCEPT !.access = access])
    /\ lb = NoLb
    /\ pip = FALSE

InitCloud == InitVip \/ InitNat \/ InitPublic \/ InitRoutes

NoTicks == [n |-> 0, vipDoneAt |-> 0]

\* The daemon waits in select with a loaded configuration; nobody writes to
\* its socket.
Init ==
    /\ InitCloud
    /\ last = EmptyLast
    /\ ticks = NoTicks
    /\ pc = "select"
    /\ sock = <<>>

-----------------------------------------------------------------------------
(* The event loop: Server.run *)

\* A datagram as recv hands it over (bytes), and a str literal of the code.
Bytes(payload) == [type |-> "bytes", s |-> payload]
Str(text) == [type |-> "str", s |-> text]

Payloads == {"STOP", "RECONF", "CHANGED", "hello", "0xff"}

\* dgram.decode('utf-8') fails on a payload that is not UTF-8
Decodes(payload) == payload # "0xff"

\* position of the first datagram the drain cannot decode, 0 if none
RECURSIVE FirstUndecodable(_, _)
FirstUndecodable(q, i) ==
    IF i > Len(q) THEN 0 ELSE IF ~Decodes(q[i]) THEN i ELSE FirstUndecodable(q, i + 1)

\* select and the drain loop of Server.run: every waiting datagram goes
\* into events as received; EAGAIN adds the str 'CHANGED' and ends the
\* drain.  A datagram that cannot be decoded for the debug line raises out
\* of run.
Select ==
    /\ pc = "select"
    /\ LET bad == FirstUndecodable(sock, 1)
       IN  IF bad > 0
           THEN /\ pc' = "crashed"
                /\ sock' = SubSeq(sock, bad + 1, Len(sock))
                /\ last' = [EmptyLast EXCEPT !.kind = "tick", !.idle = last.idle,
                               !.applied = last.applied,
                               !.swallowed = last.swallowed,
                               !.aborted = last.aborted,
                               !.drained = bad - 1,
                               !.events = {Bytes(sock[i]) : i \in 1..(bad - 1)}]
           ELSE /\ pc' = "handlers"
                /\ sock' = <<>>
                /\ last' = [EmptyLast EXCEPT !.kind = "tick", !.idle = last.idle,
                               !.applied = last.applied,
                               !.swallowed = last.swallowed,
                               !.aborted = last.aborted,
                               !.drained = Len(sock),
                               !.events = {Bytes(sock[i]) : i \in DOMAIN sock}
                                          \cup {Str("CHANGED")}]
    /\ UNCHANGED <<conf, templateName, res, lb, pip, ticks>>

World(ans) ==
    [conf |-> conf, tn |-> templateName, res |-> res, puts |-> <<>>, calls |-> <<>>,
     status |-> <<>>, log |-> <<>>, ans |-> ans]

\* the CHANGED handler called once more when the drain found datagrams
ThenChangedPerDatagram(events, out, r, ran) ==
    IF ~r.raised /\ Str("CHANGED") \in events
    THEN [w |-> IF Cardinality(events) > 1 THEN Poll(Poll(r.w, out), out)
                ELSE Poll(r.w, out),
          raised |-> FALSE,
          handlers |-> IF Cardinality(events) > 1 THEN ran \o <<"poll", "poll">>
                       ELSE Append(ran, "poll")]
    ELSE [w |-> r.w, raised |-> r.raised, handlers |-> ran]

\* the CHANGED handler run only in a tick that no datagram woke
ThenChangedIdleOnly(events, out, r, ran) ==
    IF ~r.raised /\ events = {Str("CHANGED")}
    THEN [w |-> Poll(r.w, out), raised |-> FALSE, handlers |-> Append(ran, "poll")]
    ELSE [w |-> r.w, raised |-> r.raised, handlers |-> ran]

\* the CHANGED handler, after the RECONF handler left r having run the
\* handlers ran
ThenChanged(events, out, r, ran) ==
    IF ~r.raised /\ Str("CHANGED") \in events
    THEN [w |-> Poll(r.w, out), raised |-> FALSE, handlers |-> Append(ran, "poll")]
    ELSE [w |-> r.w, raised |-> r.raised, handlers |-> ran]

\* for h in handlers: if h[0] in events: h[1]()  -- RECONF, then CHANGED.
\* An exception leaving reconf leaves run.
RunHandlers(events, ans, load, out) ==
    ThenChanged(events, out,
                IF Str("RECONF") \in events THEN Reconf(World(ans), load, out)
                ELSE [w |-> World(ans), raised |-> FALSE],
                IF Str("RECONF") \in events THEN <<"reconf">> ELSE <<>>)

\* The answers of the cloud to the PUT requests of a tick: one for each of
\* the first MaxAnswers requests the tick sends, 200 for the rest.
RECURSIVE AnswerChoices(_, _, _, _)
AnswerChoices(prefix, events, load, out) ==
    IF Len(prefix) >= MaxAnswers
       \/ Len(RunHandlers(events, prefix, load, out).w.puts) <= Len(prefix)
    THEN {prefix}
    ELSE UNION {AnswerChoices(Append(prefix, a), events, load, out) : a \in Answers}

\* the configurations azure-ha-conf --dump may hand to a reload
Dumps ==
    {[templateName |-> "HA", clusterNetworkInterfaces |-> <<Entry("eth0", OneVip)>>],
     [templateName |-> "ha",
      clusterNetworkInterfaces |-> <<[cni |-> "eth0", legacy |-> <<"10.0.0.10">>]>>,
      interfaceSwitchMode |-> "serial"],
     [templateName |-> "ha_lb", lbName |-> "frontend-lb"]}

LoadFaults == {"none", "subscription"}

Loads ==
    {[c |-> <<>>, fails |-> "dump"]}
    \cup {[c |-> c, fails |-> f] : c \in Dumps, f \in LoadFaults}

NoLoad == [c |-> <<>>, fails |-> "none"]

\* the tick ran setLocalActive to its end and stored todo = False
EndsIdle(w) ==
    \E i \in DOMAIN w.log : w.log[i].ev = "end" /\ ~w.log[i].raised /\ ~w.log[i].todo

\* the cloud answered 200 to every PUT of the tick
AllApplied(w) == \A i \in DOMAIN w.puts : w.puts[i].ans = "200"

\* the NICs whose VIP addition, sent with an edge-zone context, ended in
\* the swallowed 409 InvalidExtendedLocation
SwallowedAdds(calls) ==
    {calls[i].rid : i \in {j \in DOMAIN calls :
                              /\ calls[j].description = "my VIP addition"
                              /\ calls[j].ctx # "none"
                              /\ calls[j].kind = "body"}}

\* an exception left a reconciler and with it setLocalActive
Aborted(log) == \E i \in DOMAIN log : log[i].ev = "call" /\ log[i].raised

\* the status file, the cloud and conf after the handlers of a tick left h
Commit(h, out) ==
    /\ conf' = h.w.conf
    /\ templateName' = h.w.tn
    /\ res' = h.w.res
    /\ last' = [last EXCEPT !.handlers = h.handlers,
                            !.state = IF out = "fail" THEN "none" ELSE ParseState(out),
                            !.puts = h.w.puts, !.calls = h.w.calls,
                            !.status = h.w.status, !.log = h.w.log,
                            !.pre = res, !.confBefore = conf,
                            !.idle = EndsIdle(h.w), !.applied = AllApplied(h.w),
                            !.swallowed = SwallowedAdds(h.w.calls),
                            !.swallowedBefore = last.swallowed,
                            !.aborted = Aborted(h.w.log),
                            !.abortedBefore = last.aborted]
    /\ pc' = IF h.raised THEN "crashed"
             ELSE IF Str("STOP") \in last.events THEN "exited"
             ELSE "select"
    /\ UNCHANGED <<lb, pip, sock>>

HandlersStep(load, out, ans) == Commit(RunHandlers(last.events, ans, load, out), out)

\* The handlers of a tick, against a cloud that answers as it likes.
Handlers ==
    /\ pc = "handlers"
    /\ \E out \in ProbeOutputs :
       \E load \in (IF Str("RECONF") \in last.events THEN Loads ELSE {NoLoad}) :
       \E ans \in AnswerChoices(<<>>, last.events, load, out) :
           HandlersStep(load, out, ans)
    /\ UNCHANGED ticks

NotReady == {rid \in DOMAIN res : res[rid].state # "Succeeded"}

\* the resources a tick of this configuration reads: the NICs of the
\* configured interfaces, the primary NICs and the route tables
Watched ==
    {rid \in NicIds : \/ rid[2] = "eth0"
                      \/ \E i \in DOMAIN Get(conf, "clusterNetworkInterfaces", <<>>) :
                             conf["clusterNetworkInterfaces"][i].cni = rid[2]}
    \cup RtIds

\* The cloud moves a resource's provisioningState (between two ticks).
Provision ==
    /\ pc = "handlers"
    /\ \E rid \in Watched, s \in ProvStates :
        /\ res[rid].state # s
        /\ s # "Succeeded" => Cardinality(NotReady \ {rid}) < MaxNotReady
        /\ res' = [res EXCEPT ![rid].state = s]
    /\ last' = [last EXCEPT !.idle = FALSE, !.applied = FALSE]
    /\ UNCHANGED <<conf, templateName, lb, pip, ticks, pc, sock>>

Next == Select \/ Handlers \/ Provision

Spec == Init /\ [][Next]_vars

\* The same daemon over the VIP configurations alone.
InitVipOnly ==
    /\ InitVip
    /\ last = EmptyLast
    /\ ticks = NoTicks
    /\ pc = "select"
    /\ sock = <<>>

SpecVip == InitVipOnly /\ [][Next]_vars

-----------------------------------------------------------------------------
(* A fault-free cloud *)

\* the VIP reconciler returned False in this tick
VipReportedDone(log) ==
    \E i \in DOMAIN log :
        /\ log[i].ev = "call"
        /\ log[i].f = "set_cluster_ips"
        /\ ~log[i].raised
        /\ ~log[i].ret

\* A tick with the local member active, every PUT applied, and no resource
\* ever out of Succeeded; ticks are counted.
CleanHandlers ==
    /\ pc = "handlers"
    /\ ticks.n < MaxTicks
    /\ HandlersStep(NoLoad, "ACTIVE", <<>>)
    /\ ticks' = [n |-> ticks.n + 1,
                 vipDoneAt |-> IF ticks.vipDoneAt = 0 /\ VipReportedDone(last'.log)
                               THEN ticks.n + 1 ELSE ticks.vipDoneAt]

InitClean ==
    /\ InitVip \/ InitNat
    /\ last = EmptyLast
    /\ ticks = NoTicks
    /\ pc = "select"
    /\ sock = <<>>

NextClean == Select \/ CleanHandlers

SpecClean == InitClean /\ [][NextClean]_vars

-----------------------------------------------------------------------------
(* The daemon from its start: main, with peers writing to the socket *)

\* the state after one reconf() of main left r
Started(r) ==
    /\ conf' = r.w.conf
    /\ templateName' = r.w.tn
    /\ res' = r.w.res
    /\ last' = [EmptyLast EXCEPT !.kind = "main", !.handlers = <<"reconf">>,
                   !.puts = r.w.puts, !.calls = r.w.calls,
                   !.status = r.w.status, !.log = r.w.log,
                   !.pre = res, !.confBefore = conf]
    /\ pc' = IF r.raised THEN "main" ELSE "select"

\* main(): reconf() until it returns without an exception, five seconds
\* apart; then Server.run.
Main ==
    /\ pc = "main"
    /\ \E load \in Loads, out \in ProbeOutputs :
       \E ans \in AnswerChoices(<<>>, {Str("RECONF")}, load, out) :
           Started(Reconf(World(ans), load, out))
    /\ UNCHANGED <<lb, pip, ticks, sock>>

\* Some process sends a datagram to ha.sock, bound once Server exists; the
\* next drain finds it.
Send ==
    /\ pc = "select"
    /\ Len(sock) < MaxQueue
    /\ \E payload \in Payloads : sock' = Append(sock, payload)
    /\ UNCHANGED <<conf, templateName, res, lb, pip, last, ticks, pc>>

InitServer ==
    /\ conf = <<>>
    /\ templateName = "None"
    /\ \E p1 \in {"me", "peer"} :
           res = Cloud(NicPair("cluster-vip", p1, "none", PlainPrimary, NoZone), PlainPair,
                       RouteTable(<<MovedRoute>>))
    /\ lb = NoLb
    /\ pip = FALSE
    /\ last = EmptyLast
    /\ ticks = NoTicks
    /\ pc = "main"
    /\ sock = <<>>

NextServer == Main \/ Send \/ Select \/ Handlers

SpecServer == InitServer /\ [][NextServer]_vars

-----------------------------------------------------------------------------
(* Ownership *)

\* the NIC of member vm for interface cni holds an ipConfiguration of that
\* name, compared as get_cluster_ip_index compares
NicHolds(r, vm, cni, name) ==
    \E i \in DOMAIN r[NicId(vm, cni)].ipcs :
        Lower(r[NicId(vm, cni)].ipcs[i].name) = Lower(name)

ConfiguredVips(c) ==
    LET entries == Get(c, "clusterNetworkInterfaces", <<>>)
    IN  UNION {{<<entries[i].cni, entries[i].vips[j].name>> : j \in DOMAIN entries[i].vips} :
                  i \in DOMAIN entries}

ClusterNatRules(r, vm) ==
    {n \in LowerSet(r[GetVmPrimaryNic(vm)].ipcs[1].nat) : StartsWithClusterVip(n)}

DoubleOwnership(r, c) ==
    \/ \E v \in ConfiguredVips(c) : NicHolds(r, "me", v[1], v[2]) /\ NicHolds(r, "peer", v[1], v[2])
    \/ ClusterNatRules(r, "me") \cap ClusterNatRules(r, "peer") # {}
    \/ \A vm \in Members : r[GetVmPrimaryNic(vm)].ipcs[1].pub = PublicIpId

\* C1: from a cloud state in which no configured VIP name, no cluster-vip
\* NAT rule and no cluster public IP is attached to both the local and the
\* peer NIC, no step of the daemon (a tick with failing PUTs or with
\* resources not yet Succeeded included) leads to a state where one is.
C1_NoDoubleOwnership ==
    [][~DoubleOwnership(res, conf) => ~DoubleOwnership(res', conf')]_vars

\* a tick that started without double ownership, had a PUT refused and
\* attached a VIP to the local NIC
C1_Witness ==
    /\ pc = "select"
    /\ last.kind = "tick"
    /\ ~DoubleOwnership(last.pre, last.confBefore)
    /\ \E i \in DOMAIN last.puts : last.puts[i].ans # "200"
    /\ \E i \in DOMAIN last.calls :
           last.calls[i].description = "my VIP addition" /\ last.calls[i].kind = "response"

-----------------------------------------------------------------------------
(* Order of the writes of the VIP reconciler *)

\* the configured interfaces of a configuration
Entries(c) == Get(c, "clusterNetworkInterfaces", <<>>)

\* the peer NIC of the interface holds one of its configured VIP names
PeerHoldsAny(r, e) ==
    \E j \in DOMAIN e.vips : NicHolds(r, "peer", e.cni, e.vips[j].name)

\* the calls of safe_arm_put of the last tick for a resource and a purpose
CallsFor(rid, description) ==
    {i \in DOMAIN last.calls :
        last.calls[i].rid = rid /\ last.calls[i].description = description}

\* set_cluster_ips ran in the last tick / came to the interface
VipReconcilerRan ==
    \E i \in DOMAIN last.log : last.log[i].ev = "call" /\ last.log[i].f = "set_cluster_ips"

Reached(cni) ==
    \E i \in DOMAIN last.log : last.log[i].ev = "cni" /\ last.log[i].cni = cni

\* the request body is the peer NIC as fetched, less every configured VIP
PeerBodyClean(i, e) ==
    /\ ~\E j \in DOMAIN e.vips, k \in DOMAIN last.calls[i].body.ipcs :
           Lower(last.calls[i].body.ipcs[k].name) = Lower(e.vips[j].name)
    /\ SeqToSet(last.calls[i].body.ipcs) \subseteq
           SeqToSet(last.pre[NicId("peer", e.cni)].ipcs)

\* C2: in every tick, the local-NIC PUT appending an interface's VIPs is
\* issued only if the peer NIC fetched in the tick holds none of the
\* interface's VIP names (case-insensitively); when the reconciler comes to
\* an interface whose peer NIC is Succeeded and holds some, the tick PUTs
\* the peer NIC with them removed and issues no local-NIC PUT for it.
C2_PeerFirst ==
    last.kind = "tick" =>
        \A n \in DOMAIN Entries(last.confBefore) :
            LET e == Entries(last.confBefore)[n]
                adds == CallsFor(NicId("me", e.cni), "my VIP addition")
                rems == CallsFor(NicId("peer", e.cni), "peer VIP removal")
            IN  /\ adds # {} => ~PeerHoldsAny(last.pre, e)
                /\ rems # {} => adds = {}
                /\ (/\ PeerHoldsAny(last.pre, e)
                    /\ Reached(e.cni)
                    /\ last.pre[NicId("peer", e.cni)].state = "Succeeded")
                   => /\ rems # {}
                      /\ \A i \in rems : PeerBodyClean(i, e)
                      /\ adds = {}

\* a tick of two interfaces that removed the VIP (spelled Cluster-VIP in the
\* cloud, or not) from the peer NIC of one and added it to the local NIC of
\* the other
C2_Witness ==
    /\ last.kind = "tick"
    /\ \E n, m \in DOMAIN Entries(last.confBefore) :
           LET e == Entries(last.confBefore)[n]
               f == Entries(last.confBefore)[m]
           IN  /\ PeerHoldsAny(last.pre, e)
               /\ CallsFor(NicId("peer", e.cni), "peer VIP removal") # {}
               /\ CallsFor(NicId("me", f.cni), "my VIP addition") # {}

\* C2 as stated: whenever set_cluster_ips runs, for every configured
\* interface whose peer NIC holds a configured VIP name the tick PUTs the
\* peer NIC with them removed.
C2_EveryInterface ==
    (last.kind = "tick" /\ VipReconcilerRan) =>
        \A n \in DOMAIN Entries(last.confBefore) :
            LET e == Entries(last.confBefore)[n]
                adds == CallsFor(NicId("me", e.cni), "my VIP addition")
                rems == CallsFor(NicId("peer", e.cni), "peer VIP removal")
            IN  /\ adds # {} => ~PeerHoldsAny(last.pre, e)
                /\ PeerHoldsAny(last.pre, e) => (rems # {} /\ adds = {})

-----------------------------------------------------------------------------
(* What "no work remains" means *)

\* every configured VIP name is on the local NIC of its interface and on no
\* peer NIC
AllVipsPlaced(r, c) ==
    \A v \in ConfiguredVips(c) :
        NicHolds(r, "me", v[1], v[2]) /\ ~NicHolds(r, "peer", v[1], v[2])

\* C3: whenever set_cluster_ips returns false in a tick, every configured
\* VIP name of every configured interface is an ipConfiguration of the
\* local NIC and of no peer NIC, whatever subset of the VIPs the local NIC
\* held before.
C3_DoneMeansPlaced ==
    (last.kind = "tick" /\ VipReportedDone(last.log)) => AllVipsPlaced(res, conf)

\* set_cluster_ips returns false over a local NIC that holds both VIPs of
\* its interface, after an earlier tick added them
C3_Witness ==
    /\ last.kind = "tick"
    /\ VipReportedDone(last.log)
    /\ Len(Entries(conf)[1].vips) = 2
    /\ AllVipsPlaced(res, conf)
    /\ ticks.n >= 2

-----------------------------------------------------------------------------
(* Convergence against a fault-free cloud *)

\* (number of configured interfaces x 2) + 1
VipTickBound(c) == 2 * Len(Entries(c)) + 1

\* C4: against a fault-free cloud, with a stable configuration and the
\* local member active on every tick, set_cluster_ips returns false in one
\* of the first (interfaces x 2) + 1 ticks, in serial and in non-serial
\* mode, from any placement of the configured VIPs.
C4_VipConvergence ==
    ticks.n >= VipTickBound(conf) =>
        (ticks.vipDoneAt >= 1 /\ ticks.vipDoneAt <= VipTickBound(conf))

\* two interfaces in serial mode whose VIPs all sat on the peer: the
\* reconciler first returns false in the last tick the bound allows
C4_Witness ==
    /\ Len(Entries(conf)) = 2
    /\ conf["interfaceSwitchMode"] = "serial"
    /\ ticks.vipDoneAt = VipTickBound(conf)
    /\ AllVipsPlaced(res, conf)

-----------------------------------------------------------------------------
(* Idempotence *)

\* the handlers of a tick run in this step
TickStep == pc = "handlers" /\ pc' # "handlers"

-----------------------------------------------------------------------------
(* The standby gate *)

\* poll ran in the last tick
Polled == last.kind = "tick" /\ \E i \in DOMAIN last.handlers : last.handlers[i] = "poll"

ReachedSetLocalActive == \E i \in DOMAIN last.log : last.log[i].ev = "setLocalActive"

TodoUnchanged == Get(conf, "todo", "unset") = Get(last.confBefore, "todo", "unset")

\* C6: in a tick whose probe does not report the local member as active,
\* poll does not call setLocalActive, issues no PUT and leaves conf['todo']
\* unchanged; it writes status NOT_STARTED when the probe gave an output
\* (whose parsed local state is then not active) and no status when the
\* probe itself failed.  setLocalActive is reached only in ticks whose
\* parsed local state is active.
C6_StandbyGate ==
    Polled =>
        /\ last.state # "active" =>
               /\ ~ReachedSetLocalActive
               /\ last.puts = <<>>
               /\ TodoUnchanged
               /\ last.status = IF last.state = "none" THEN <<>> ELSE <<"NOT_STARTED">>
        /\ ReachedSetLocalActive => last.state = "active"

\* a standby tick over a cloud whose VIPs are not where the configuration
\* wants them: nothing is written but NOT_STARTED
C6_Witness ==
    /\ Polled
    /\ last.state = "standby"
    /\ last.status = <<"NOT_STARTED">>
    /\ last.puts = <<>>
    /\ "clusterNetworkInterfaces" \in DOMAIN conf
    /\ ~AllVipsPlaced(res, conf)

\* C6 as stated: every tick whose probe does not report the local member as
\* active writes status NOT_STARTED (and calls no setLocalActive, issues no
\* PUT, leaves conf['todo'] unchanged).
C6_AlwaysNotStarted ==
    (Polled /\ last.state # "active") =>
        /\ ~ReachedSetLocalActive
        /\ last.puts = <<>>
        /\ TodoUnchanged
        /\ last.status = <<"NOT_STARTED">>

-----------------------------------------------------------------------------
(* Control datagrams *)

\* C7: a datagram whose payload is STOP makes Server.run leave its loop
\* once the handlers of the tick that drained it have run.
C7_StopLeavesLoop ==
    [][(TickStep /\ Bytes("STOP") \in last.events) => pc' = "exited"]_vars

\* the tick that drained a STOP datagram ran its handlers and the daemon is
\* back in select
C7_Witness ==
    /\ pc = "select"
    /\ Bytes("STOP") \in last.events
    /\ last.handlers = <<"poll">>

\* C8: a datagram whose payload is RECONF makes the tick that drains it run
\* reconf.
C8_ReconfRuns ==
    [][(TickStep /\ Bytes("RECONF") \in last.events)
           => \E i \in DOMAIN last'.handlers : last'.handlers[i] = "reconf"]_vars

\* the tick that drained a RECONF datagram ran poll alone
C8_Witness ==
    /\ pc = "select"
    /\ Bytes("RECONF") \in last.events
    /\ Bytes("STOP") \notin last.events
    /\ last.handlers = <<"poll">>

\* C9: no error ends the event loop: Server.run is left only by a tick that
\* drained STOP.
C9_OnlyStopEndsLoop ==
    pc \in {"exited", "crashed"} => (pc = "exited" /\ Bytes("STOP") \in last.events)

\* Server.run left by an exception of the tick that was draining the socket
C9_Witness ==
    /\ pc = "crashed"
    /\ last.kind = "tick"
    /\ last.handlers = <<>>

-----------------------------------------------------------------------------
(* The edge-zone fallback of safe_arm_put *)

\* the answers the cloud gave in the tick that ends in this step, with the
\* answer to request j replaced by 200
AnswersWith200At(j) ==
    [k \in DOMAIN last'.puts |-> IF k = j THEN "200" ELSE last'.puts[k].ans]

\* where in the log the reconciler that made a call logged after `at`
\* returns
CallerEnd(log, at) ==
    CHOOSE k \in (at + 1)..Len(log) :
        log[k].ev = "call" /\ \A j \in (at + 1)..(k - 1) : log[j].ev # "call"

\* what the calling reconciler did, from the start of the tick to its
\* return: the log, and the requests in order
Course(log, puts, at) ==
    LET k == CallerEnd(log, at)
    IN  [log |-> SubSeq(log, 1, k),
         requests |-> [j \in 1..log[k].requests |-> <<puts[j].rid, puts[j].what>>]]

\* the course the calling reconciler would have taken had request j been
\* answered 200
CourseOf(w, at) == Course(w.log, w.puts, at)

CourseWith200At(j, at) ==
    CourseOf(RunHandlers(last.events, AnswersWith200At(j), NoLoad, "ACTIVE").w, at)

\* C10: when the cloud answers the last PUT of a safe_arm_put call (the
\* standard PUT) with 409 InvalidExtendedLocation, safe_arm_put raises
\* nothing and returns the caller's request body unchanged, and the
\* calling reconciler goes on exactly as after a successful write (the same
\* requests, the same outcome per interface, the same result); any other request
\* error, on the enhanced or the standard PUT, is re-raised, and nothing
\* else is.
C10_EdgeZoneFallback ==
    [][TickStep =>
          \A i \in DOMAIN last'.calls :
              LET c == last'.calls[i]
                  a == last'.puts[c.lastreq].ans
              IN  /\ a = "409ez" => /\ c.kind = "body"
                                    /\ c.val = c.body
                                    /\ Course(last'.log, last'.puts, c.at)
                                           = CourseWith200At(c.lastreq, c.at)
                  /\ (a = "err") <=> (c.kind = "raise")]_vars

\* a NIC in an edge zone: the enhanced and the standard PUT are both
\* refused, the second with 409 InvalidExtendedLocation; the call hands the
\* body back and the tick runs to its end
C10_Witness ==
    /\ last.kind = "tick"
    /\ \E i \in DOMAIN last.calls :
           /\ last.calls[i].ctx # "none"
           /\ last.calls[i].lastreq = last.calls[i].first + 1
           /\ last.puts[last.calls[i].lastreq].ans = "409ez"
           /\ last.calls[i].kind = "body"
    /\ \E i \in DOMAIN last.log : last.log[i].ev = "end" /\ ~last.log[i].raised

\* C10 as stated: whenever the cloud answers a PUT of the call with 409
\* InvalidExtendedLocation, safe_arm_put raises nothing and returns the
\* request body.
C10_AnyConflictAnswer ==
    \A i \in DOMAIN last.calls :
        (\E j \in last.calls[i].first..last.calls[i].lastreq : last.puts[j].ans = "409ez")
            => (last.calls[i].kind = "body" /\ last.calls[i].val = last.calls[i].body)

-----------------------------------------------------------------------------
(* The tick after a swallowed VIP addition *)

\* the tick whose handlers run in this step adds the VIPs to the NIC again
AddsAgain(rid) ==
    \E i \in DOMAIN last'.calls :
        last'.calls[i].rid = rid /\ last'.calls[i].description = "my VIP addition"

\* every NIC the VIP reconciler reads is Succeeded
NicsSucceeded == \A rid \in Watched \cap NicIds : res[rid].state = "Succeeded"

-----------------------------------------------------------------------------
(* The route reconciler over members with one or two addresses *)

\* the addresses of a cluster with two interfaces
TwoAddresses == [me |-> <<"10.0.1.4", "10.0.2.4">>, peer |-> <<"10.0.1.5", "10.0.2.5">>]

AddressLists == {Addresses, TwoAddresses}

\* routes of every kind: through either peer address or through mine, to
\* a network or to a peer address with /32 or /24
RuleRoutes ==
    {Route(t, h, p) : t \in {"VirtualAppliance", "Internet"},
                      h \in {"10.0.1.5", "10.0.2.5", "10.0.1.4"},
                      p \in {<<"0.0.0.0", "0">>, <<"10.0.1.5", "32">>,
                             <<"10.0.2.5", "32">>, <<"10.0.1.5", "24">>}}

RuleRouteLists ==
    {<<r>> : r \in RuleRoutes}
    \cup {<<r, TrafficRoute>> : r \in RuleRoutes}
    \cup {<<PeerHostRoute, r>> : r \in RuleRoutes}

\* Template stack-ha: the route reconciler alone, over one table.
InitRouteRules ==
    /\ templateName = "stack-ha"
    /\ \E a \in AddressLists : conf = [addresses |-> a, vnetId |-> "vnet1"]
    /\ \E routes \in RuleRouteLists :
           res = Cloud(NicPair("cluster-vip", "me", "none", PlainPrimary, NoZone),
                       PlainPair, RouteTable(routes))
    /\ lb = NoLb
    /\ pip = FALSE
    /\ last = EmptyLast
    /\ ticks = NoTicks
    /\ pc = "select"
    /\ sock = <<>>

SpecRoutes == InitRouteRules /\ [][Next]_vars

-----------------------------------------------------------------------------
(* The route rewrite rule *)

RtId == <<"rt", "rt1">>

\* positions of a peer address
PeerPositions(addresses, a) == {i \in DOMAIN addresses.peer : addresses.peer[i] = a}

\* the prefix is one of the peer's addresses followed by /32
PeerHostPrefix(route, addresses) ==
    \E k \in DOMAIN addresses.peer : route.addressPrefix = <<addresses.peer[k], "32">>

\* the route the rule asks for: through addresses.me[i] when the route is a
\* VirtualAppliance route through addresses.peer[i] that is not a /32 route
\* to a peer address; the route itself otherwise
RuleRoute(route, addresses) ==
    IF /\ route.nextHopType = "VirtualAppliance"
       /\ PeerPositions(addresses, route.nextHopIpAddress) # {}
       /\ ~PeerHostPrefix(route, addresses)
    THEN [route EXCEPT !.nextHopIpAddress =
             addresses.me[CHOOSE i \in PeerPositions(addresses, @) :
                              \A k \in PeerPositions(addresses, @) : i <= k]]
    ELSE route

\* the same with the exception read as "the prefix is that same peer
\* address (the next hop) followed by /32"
RuleRouteSamePeer(route, addresses) ==
    IF /\ route.nextHopType = "VirtualAppliance"
       /\ PeerPositions(addresses, route.nextHopIpAddress) # {}
       /\ route.addressPrefix # <<route.nextHopIpAddress, "32">>
    THEN [route EXCEPT !.nextHopIpAddress =
             addresses.me[CHOOSE i \in PeerPositions(addresses, @) :
                              \A k \in PeerPositions(addresses, @) : i <= k]]
    ELSE route

\* set_routing_tables ran in the last tick over a ready, readable table
RouteTableReconciled ==
    /\ last.kind = "tick"
    /\ \E i \in DOMAIN last.log :
           last.log[i].ev = "call" /\ last.log[i].f = "set_routing_tables"
    /\ last.pre[RtId].state = "Succeeded"
    /\ last.pre[RtId].access = "ok"

RouteCalls ==
    {i \in DOMAIN last.calls : last.calls[i].description = "route table update"}

\* the table as fetched with every route replaced by what the rule asks
RuleTable(rule(_, _)) ==
    [j \in DOMAIN last.pre[RtId].routes |->
        rule(last.pre[RtId].routes[j], last.confBefore["addresses"])]

\* the last tick did to the table what the rule asks: a PUT exactly when the
\* rule changes a route, its body the table with the rule applied, and the
\* cloud's table equal to that body once the PUT was applied
FollowsRule(rule(_, _)) ==
    /\ (RuleTable(rule) # last.pre[RtId].routes) <=> (RouteCalls # {})
    /\ \A i \in RouteCalls :
           /\ last.calls[i].body.routes = RuleTable(rule)
           /\ last.puts[last.calls[i].lastreq].ans = "200"
                  => res[RtId].routes = RuleTable(rule)
    /\ RouteCalls = {} => res[RtId].routes = last.pre[RtId].routes

\* C12: for each ready route table, set_routing_tables sets a route's
\* nextHopIpAddress to addresses.me[i] exactly when the route's nextHopType
\* is VirtualAppliance, its next hop equals addresses.peer[i], and its
\* addressPrefix is not one of the peer's addresses (any of them) followed
\* by /32; every other route is left unchanged; for members with one
\* address and with two.
C12_RouteRewriteRule == RouteTableReconciled => FollowsRule(RuleRoute)

\* members with two addresses: a route through the peer's second address
\* was sent through my second address, the PUT applied
C12_Witness ==
    /\ RouteTableReconciled
    /\ last.confBefore["addresses"] = TwoAddresses
    /\ \E j \in DOMAIN res[RtId].routes :
           /\ last.pre[RtId].routes[j].nextHopIpAddress = "10.0.2.5"
           /\ res[RtId].routes[j].nextHopIpAddress = "10.0.2.4"

\* C12 as stated: the only routes through a peer address that are left
\* alone are those whose prefix is that same peer address followed by /32.
C12_SamePeerOnly == RouteTableReconciled => FollowsRule(RuleRouteSamePeer)

-----------------------------------------------------------------------------
(* The peer's /32 routes *)

\* a route to its own next hop, a peer address, with /32
OwnHostRoute(route, addresses) ==
    /\ route.addressPrefix = <<route.nextHopIpAddress, "32">>
    /\ PeerPositions(addresses, route.nextHopIpAddress) # {}

\* C13: a route whose addressPrefix is <nextHop>/32 with nextHop in
\* addresses.peer is never rewritten: no step of the daemon changes it in
\* the cloud's table, and no PUT body carries it with another next hop.
C13_HostRoutePreserved ==
    [][\A j \in DOMAIN res[RtId].routes :
           OwnHostRoute(res[RtId].routes[j], conf["addresses"])
               => /\ j \in DOMAIN res'[RtId].routes
                  /\ res'[RtId].routes[j] = res[RtId].routes[j]
                  /\ \A i \in DOMAIN last'.puts :
                         last'.puts[i].rid = RtId
                             => last'.puts[i].body.routes[j] = res[RtId].routes[j]]_vars

\* the table was written, a traffic route moved to my address, and the
\* peer's /32 route in it is what it was
C13_Witness ==
    /\ RouteTableReconciled
    /\ \E i \in RouteCalls : last.puts[last.calls[i].lastreq].ans = "200"
    /\ res[RtId].routes # last.pre[RtId].routes
    /\ \E j \in DOMAIN res[RtId].routes :
           /\ OwnHostRoute(last.pre[RtId].routes[j], last.confBefore["addresses"])
           /\ last.pre[RtId].routes[j].nextHopType = "VirtualAppliance"
           /\ res[RtId].routes[j] = last.pre[RtId].routes[j]

-----------------------------------------------------------------------------
(* The first active tick over a converged cloud *)

\* poll found the local member active in the last step (a tick of
\* Server.run, or the poll that ends reconf in main)
ActivePoll ==
    /\ last.kind \in {"main", "tick"}
    /\ \E i \in DOMAIN last.log : last.log[i].ev = "poll" /\ last.log[i].state = "active"

\* the last step was the first to run setLocalActive since the daemon
\* started (conf holds no 'todo' before setLocalActive has stored one), and
\* it found every configured VIP on the local NIC and none on the peer's
FirstActiveConverged ==
    /\ ActivePoll
    /\ "todo" \notin DOMAIN last.confBefore
    /\ ConfiguredVips(conf) # {}
    /\ AllVipsPlaced(last.pre, conf)

\* C14: when on the first active tick after daemon start every configured
\* VIP is already on the local NIC and none is on the peer NIC, that tick
\* performs zero PUTs, stores todo = false and writes no status: DONE is
\* not written, because conf holds no true 'todo' yet.
C14_ConvergedAtStart ==
    FirstActiveConverged =>
        /\ last.puts = <<>>
        /\ last.status = <<>>
        /\ conf["todo"] = FALSE

\* a tick of Server.run that is the first active one, after a start whose
\* probe reported standby
C14_Witness ==
    /\ FirstActiveConverged
    /\ last.kind = "tick"
    /\ last.puts = <<>>
    /\ last.status = <<>>
    /\ templateName = "ha"

\* C14 as stated: that tick performs zero PUTs and writes status DONE.
C14_DoneAtStart ==
    FirstActiveConverged =>
        /\ last.puts = <<>>
        /\ \E i \in DOMAIN last.status : last.status[i] = "DONE"

-----------------------------------------------------------------------------
(* When DONE is written *)

DoneWrites == {i \in DOMAIN last.status : last.status[i] = "DONE"}

\* the reconcilers of the last tick: the "call" entries of its log
ReconcilerRuns == {i \in DOMAIN last.log : last.log[i].ev = "call"}

\* every reconciler run in the last tick returned, reporting no work
NoWorkReported ==
    \A i \in ReconcilerRuns : ~last.log[i].raised /\ ~last.log[i].ret

\* C15: status DONE is written in a tick if and only if conf['todo'] was
\* true when the tick's setLocalActive started and every reconciler run in
\* the tick reported no work remaining; it is never written in a tick in
\* which a reconciler reported work remaining or raised, and never twice.
C15_DoneOnEdge ==
    last.kind = "tick" =>
        /\ (DoneWrites # {}) <=> (/\ ReachedSetLocalActive
                                  /\ Get(last.confBefore, "todo", FALSE) = TRUE
                                  /\ NoWorkReported)
        /\ Cardinality(DoneWrites) <= 1

\* a tick that found todo true, ran the route, VIP and NAT-rule reconcilers,
\* none with work left, and wrote DONE
C15_Witness ==
    /\ last.kind = "tick"
    /\ last.status = <<"DONE">>
    /\ Get(last.confBefore, "todo", FALSE) = TRUE
    /\ conf["todo"] = FALSE
    /\ Cardinality(ReconcilerRuns) = 3
    /\ NoWorkReported

-----------------------------------------------------------------------------
(* When IN_PROGRESS is written *)

InProgressWrites == {i \in DOMAIN last.status : last.status[i] = "IN_PROGRESS"}

PeerRemovals == {i \in DOMAIN last.calls : last.calls[i].description = "peer VIP removal"}

\* C16: status IN_PROGRESS is written in a tick exactly when the VIP
\* reconciler PUTs a peer NIC to remove VIPs from it, once for each such
\* removal; a tick whose PUTs are local VIP additions, NAT-rule or public-IP
\* writes, route-table updates or resets of Failed resources writes no
\* IN_PROGRESS.
C16_InProgressOnPeerRemoval ==
    last.kind = "tick" => Cardinality(InProgressWrites) = Cardinality(PeerRemovals)

\* a tick of two interfaces that removed the VIP from the peer NIC of one,
\* added it to the local NIC of the other, and wrote IN_PROGRESS once
C16_Witness ==
    /\ last.kind = "tick"
    /\ Cardinality(PeerRemovals) = 1
    /\ last.status = <<"IN_PROGRESS">>
    /\ \E i \in DOMAIN last.calls : last.calls[i].description = "my VIP addition"

\* C16 as stated: every tick that issues at least one PUT writes IN_PROGRESS.
C16_InProgressOnAnyPut ==
    (last.kind = "tick" /\ last.puts # <<>>) => InProgressWrites # {}

-----------------------------------------------------------------------------
(* What a reload keeps *)

\* the keys reconf and poll compute after the merge
ComputedKeys == {"clusterNetworkInterfaces", "addresses", "vnetId", "todo"}

\* the configurations loaded in the step: the reconf entries of its log
Reloads == {i \in DOMAIN last'.log : last'.log[i].ev = "reconf" /\ "c" \in DOMAIN last'.log[i]}

\* new holds every key of old and of c, with the value of c where c has the
\* key and the value of old elsewhere
MergedInto(old, c, new) ==
    /\ DOMAIN old \cup DOMAIN c \subseteq DOMAIN new
    /\ \A k \in (DOMAIN old \cup DOMAIN c) \ ComputedKeys :
           new[k] = IF k \in DOMAIN c THEN c[k] ELSE old[k]

\* new holds nothing but what c supplies and what reconf and poll compute
ReplacedBy(c, new) == DOMAIN new \subseteq DOMAIN c \cup ComputedKeys

-----------------------------------------------------------------------------
(* The api-version of a request *)

\* Resource ids as the engine builds them or takes them from the cloud's
\* answers: the part up to providers/, the provider segment, the type, the
\* name.  The engine writes the VM ids itself, with a lower-case provider;
\* NIC, route-table and VNet ids come out of the cloud's answers, in the
\* cloud's spelling or lower-cased; the public IP id is built with
\* Microsoft.Network/.
VmId == <<"baseId", "microsoft.compute/", "virtualmachines/", "member1">>
ArmNicId(provider) == <<"baseId", provider, "networkInterfaces/", "member1-eth0">>
ArmRouteTableId(provider) == <<"baseId", provider, "routeTables/", "rt1">>
ArmVnetId(provider) == <<"baseId", provider, "virtualNetworks/", "vnet1">>
ArmPublicIpId == <<"baseId", "Microsoft.Network/", "publicIPAddresses/", "cluster">>

NetworkSpellings == {"Microsoft.Network/", "microsoft.network/"}

\* the requests that carry get_api_version(id): method and id
VersionedRequests ==
    {<<"GET", VmId>>, <<"GET", ArmPublicIpId>>}
    \cup {<<"GET", ArmNicId(p)>> : p \in NetworkSpellings}
    \cup {<<"PUT", ArmNicId(p)>> : p \in NetworkSpellings}
    \cup {<<"GET", ArmRouteTableId(p)>> : p \in NetworkSpellings}
    \cup {<<"PUT", ArmRouteTableId(p)>> : p \in NetworkSpellings}
    \cup {<<"GET", ArmVnetId(p)>> : p \in NetworkSpellings}

\* 'text' in resource_id
Contains(resource_id, text) == \E i \in DOMAIN resource_id : resource_id[i] = text

\* get_api_version(resource_id)
GetApiVersion(resource_id) ==
    IF Contains(resource_id, "Microsoft.Network/") THEN "?api-version=2024-05-01"
    ELSE IF Contains(resource_id, "Microsoft.Compute/") THEN "?api-version=2019-07-01"
    ELSE "?api-version=2021-04-01"

\* ARM_VERSIONS: the mapping of a profile, provider/type prefix to version
ArmVersions(profile) ==
    IF profile = "stack"
    THEN [k \in {"compute/", "network/", "network/virtualnetworks", "resources/"} |->
             CASE k = "compute/" -> "2019-07-01"
               [] k = "network/" -> "2024-05-01"
               [] k = "network/virtualnetworks" -> "2024-05-01"
               [] OTHER -> "2021-04-01"]
    ELSE [k \in {"network/", "resources/", "compute/"} |->
             CASE k = "network/" -> "2024-05-01"
               [] k = "compute/" -> "2019-07-01"
               [] OTHER -> "2021-04-01"]

\* set_api_versions: the profile a template selects
Profile(tn) == IF tn = "stack-ha" THEN "stack" ELSE "ha"

\* azure.arm(method, id + get_api_version(id)): the request as sent
Request ==
    /\ pc = "select"
    /\ Len(last.log) < MaxRequests
    /\ \E r \in VersionedRequests :
           last' = [last EXCEPT !.kind = "request",
                                !.log = Append(@, [ev |-> "arm", method |-> r[1], id |-> r[2],
                                                   version |-> GetApiVersion(r[2])])]
    /\ UNCHANGED <<conf, templateName, res, lb, pip, ticks, pc, sock>>

InitVersions ==
    /\ templateName \in {"ha", "stack-ha"}
    /\ conf = [addresses |-> Addresses, vnetId |-> "vnet1"]
    /\ res = Cloud(PlainPair, PlainPair, RouteTable(<<MovedRoute>>))
    /\ lb = NoLb
    /\ pip = FALSE
    /\ last = EmptyLast
    /\ ticks = NoTicks
    /\ pc = "select"
    /\ sock = <<>>

NextVersions == Request

SpecVersions == InitVersions /\ [][NextVersions]_vars

\* the key of a mapping an id's provider and type fall under, compared in
\* lower case: the longest key that is a prefix of provider/type
MappingKey(profile, resource_id) ==
    CASE Lower(resource_id[2]) = "microsoft.network/" ->
             IF profile = "stack" /\ resource_id[3] = "virtualNetworks/"
             THEN "network/virtualnetworks" ELSE "network/"
      [] Lower(resource_id[2]) = "microsoft.compute/" -> "compute/"
      [] OTHER -> "resources/"

MappedVersion(tn, resource_id) ==
    "?api-version=" \o ArmVersions(Profile(tn))[MappingKey(Profile(tn), resource_id)]

\* C18: for every GET and PUT the engine sends, the api-version attached to
\* the request is the one the active profile's mapping gives for the id's
\* provider and type by longest-prefix match, whatever the letter case of
\* the provider segment.
C18_VersionByMapping ==
    \A i \in DOMAIN last.log :
        last.log[i].ev = "arm"
            => last.log[i].version = MappedVersion(templateName, last.log[i].id)

\* the GET of a VM, whose id the engine writes with microsoft.compute/,
\* sent with the default version
C18_Witness ==
    \E i \in DOMAIN last.log :
        /\ last.log[i].ev = "arm"
        /\ last.log[i].id = VmId
        /\ last.log[i].version = "?api-version=2021-04-01"

-----------------------------------------------------------------------------
(* The interface switch mode *)

IsInterfaceEntry(e) == e.ev = "cni"

\* the interfaces the VIP reconciler came to in the last tick, in order,
\* each with how it ended
Visited == SelectSeq(last.log, IsInterfaceEntry)

\* the interface needs nothing: both its NICs are Succeeded, the local one
\* holds every VIP of the interface and the peer's holds none
NeedsNothing(r, e) ==
    /\ r[NicId("me", e.cni)].state = "Succeeded"
    /\ r[NicId("peer", e.cni)].state = "Succeeded"
    /\ \A j \in DOMAIN e.vips :
           NicHolds(r, "me", e.cni, e.vips[j].name)
           /\ ~NicHolds(r, "peer", e.cni, e.vips[j].name)

\* the PUTs of the last tick to the NICs of an interface
WritesTo(cni) == {i \in DOMAIN last.puts : last.puts[i].rid[2] = cni}

VipReconcilerRaised ==
    \E i \in DOMAIN last.log :
        last.log[i].ev = "call" /\ last.log[i].f = "set_cluster_ips" /\ last.log[i].raised

\* the reconciler found nothing to do for the interface: both NICs
\* Succeeded, no VIP of the interface on the peer's NIC, no PUT sent
PassedOver(e) ==
    /\ last.pre[NicId("me", e.cni)].state = "Succeeded"
    /\ last.pre[NicId("peer", e.cni)].state = "Succeeded"
    /\ ~PeerHoldsAny(last.pre, e)
    /\ WritesTo(e.cni) = {}

\* the visits of a tick follow the config order; an interface counted as
\* done satisfies Settled; a NIC is written only of a visited interface; in
\* serial mode the first interface not counted as done is the last
\* visited; in another mode every interface is visited unless an exception
\* left the reconciler
SwitchMode(Settled(_)) ==
    /\ Len(Visited) <= Len(Entries(last.confBefore))
    /\ \A k \in DOMAIN Visited :
           /\ Visited[k].cni = Entries(last.confBefore)[k].cni
           /\ Visited[k].how = "done" => Settled(Entries(last.confBefore)[k])
    /\ \A k \in DOMAIN Entries(last.confBefore) :
           WritesTo(Entries(last.confBefore)[k].cni) # {} => k \in DOMAIN Visited
    /\ last.confBefore["interfaceSwitchMode"] = "serial" =>
           \A k \in DOMAIN Visited : Visited[k].how # "done" => k = Len(Visited)
    /\ (last.confBefore["interfaceSwitchMode"] # "serial" /\ ~VipReconcilerRaised) =>
           Len(Visited) = Len(Entries(last.confBefore))

\* an interface counted as done needed nothing
SettledNeedsNothing(e) == PassedOver(e) /\ NeedsNothing(last.pre, e)

-----------------------------------------------------------------------------
(* CHANGED in every tick *)

\* the last tick drained the socket to its end and ran its handlers
TickRan == last.kind = "tick" /\ pc \in {"select", "exited"}

\* the last tick left run while draining the socket
DrainRaised == last.kind = "tick" /\ pc = "crashed" /\ last.handlers = <<>>

Polls == {i \in DOMAIN last.log : last.log[i].ev = "poll"}

\* a reconciler was called, which starts by fetching its resources
CloudExamined == ReconcilerRuns # {}

WokenByDatagram == \E payload \in Payloads : Bytes(payload) \in last.events

\* C20: every tick of Server.run that drains the socket to its end,
\* whether a datagram or the idle timeout woke it, has CHANGED in its event
\* set and runs poll once, which probes the membership state; the cloud
\* state is re-examined in the tick exactly when the probe reports the
\* local member as active.  A tick whose drain raises has no CHANGED in its
\* event set and runs no handler.
C20_PollEveryTick ==
    /\ (last.kind = "tick" /\ pc = "handlers") => Str("CHANGED") \in last.events
    /\ TickRan =>
           /\ Str("CHANGED") \in last.events
           /\ last.handlers = <<"poll">>
           /\ Cardinality(Polls) = 1
           /\ CloudExamined <=> ActivePoll
    /\ DrainRaised => (Str("CHANGED") \notin last.events /\ Polls = {})

\* a tick woken by a datagram ran poll, which found the member active and
\* called the reconcilers
C20_Witness ==
    /\ TickRan
    /\ WokenByDatagram
    /\ Polled
    /\ ActivePoll
    /\ CloudExamined

\* C20 as stated: every tick has CHANGED in its event set, runs poll and
\* re-examines the cloud state.
C20_CloudExaminedEveryTick ==
    TickRan => (Str("CHANGED") \in last.events /\ Polled /\ CloudExamined)

-----------------------------------------------------------------------------
(* Dispatch within one tick *)

HandlerOrder == <<"reconf", "poll">>

\* the calls of the handler named h in the last tick
HandlerCalls(h) == {i \in DOMAIN last.handlers : last.handlers[i] = h}

\* the log entries with which the handler named h starts
HandlerStarts(h) == {i \in DOMAIN last.log : last.log[i].ev = h}

-----------------------------------------------------------------------------
(* The outcomes of safe_arm_put *)

\* the answer to the last request of call i of the last tick
LastAnswer(i) == last.puts[last.calls[i].lastreq].ans

\* what the call handed back: for a response the cloud's copy of the body
\* it stored, for the fallback the caller's body
Handed(i) ==
    CASE last.calls[i].kind = "response" ->
             last.calls[i].val = [last.puts[last.calls[i].lastreq].body
                                      EXCEPT !.state = "Succeeded"]
      [] last.calls[i].kind = "body" -> last.calls[i].val = last.calls[i].body
      [] OTHER -> TRUE

\* C22: safe_arm_put has four outcomes, decided by the answer to the last
\* PUT it sent: it returns the response body on code 200, returns None
\* (no exception) on an answer whose code is not 200, returns the request
\* body on 409 InvalidExtendedLocation, and re-raises any other request
\* error.
C22_FourOutcomes ==
    \A i \in DOMAIN last.calls :
        /\ last.calls[i].kind \in {"response", "None", "body", "raise"}
        /\ last.calls[i].kind = "response" <=> LastAnswer(i) = "200"
        /\ last.calls[i].kind = "None" <=> LastAnswer(i) = "non200"
        /\ last.calls[i].kind = "body" <=> LastAnswer(i) = "409ez"
        /\ last.calls[i].kind = "raise" <=> LastAnswer(i) = "err"
        /\ Handed(i)

\* a PUT answered with another code than 200: the call returned None and
\* the reconciler that made it returned too
C22_Witness ==
    /\ last.kind = "tick"
    /\ \E i \in DOMAIN last.calls :
           /\ LastAnswer(i) = "non200"
           /\ last.calls[i].kind = "None"
           /\ ~last.log[CallerEnd(last.log, last.calls[i].at)].raised

\* C22 as stated: three outcomes, every answer other than 200 and 409
\* InvalidExtendedLocation surfacing as an error.
C22_ThreeOutcomes ==
    \A i \in DOMAIN last.calls :
        /\ last.calls[i].kind = "response" <=> LastAnswer(i) = "200"
        /\ last.calls[i].kind = "body" <=> LastAnswer(i) = "409ez"
        /\ last.calls[i].kind = "raise" <=> LastAnswer(i) \notin {"200", "409ez"}

-----------------------------------------------------------------------------
(* PUT requests per resource *)

\* the requests sent during the reconciler run whose return is log entry k
RunPuts(k) ==
    {j \in DOMAIN last.puts :
        /\ j <= last.log[k].requests
        /\ \A m \in ReconcilerRuns : m < k => j > last.log[m].requests}

\* requests j1 < j2 are the enhanced and the standard PUT of one call of
\* safe_arm_put on a body with edge-zone context, the first not answered
\* with 200
FallbackPair(j1, j2) ==
    /\ j2 = j1 + 1
    /\ last.puts[j1].what = "enhanced"
    /\ last.puts[j1].ans \in {"non200", "409ez"}
    /\ last.puts[j2].what = "standard"
    /\ \E i \in DOMAIN last.calls :
           /\ last.calls[i].first = j1
           /\ last.calls[i].lastreq = j2
           /\ last.calls[i].ctx # "none"

\* C23: in one tick each reconciler runs at most once and calls
\* safe_arm_put at most once per resource (VIP reconciler: per interface
\* NIC; NAT-rule and public-IP reconcilers: one NIC; route reconciler: per
\* route table), whatever the answers; a call sends one PUT, or two to the
\* same resource when the body carries edge-zone context and the enhanced
\* PUT is answered with a code other than 200 or with 409
\* InvalidExtendedLocation.
C23_OneCallPerResource ==
    last.kind = "tick" =>
        /\ \A k1, k2 \in ReconcilerRuns : last.log[k1].f = last.log[k2].f => k1 = k2
        /\ \A i1, i2 \in DOMAIN last.calls :
               (/\ last.calls[i1].rid = last.calls[i2].rid
                /\ CallerEnd(last.log, last.calls[i1].at)
                       = CallerEnd(last.log, last.calls[i2].at)) => i1 = i2
        /\ \A k \in ReconcilerRuns : \A j1, j2 \in RunPuts(k) :
               (j1 < j2 /\ last.puts[j1].rid = last.puts[j2].rid) => FallbackPair(j1, j2)

\* a NIC with edge-zone context written twice in one tick: the enhanced PUT
\* answered with a code other than 200, then the standard PUT, stored by
\* the cloud
C23_Witness ==
    /\ last.kind = "tick"
    /\ \E k \in ReconcilerRuns : \E j1, j2 \in RunPuts(k) :
           /\ j1 < j2
           /\ last.puts[j1].rid = last.puts[j2].rid
           /\ last.puts[j1].ans = "non200"
           /\ last.puts[j2].ans = "200"

\* C23 as stated: at most one PUT request per resource in one run of a
\* reconciler.
C23_OnePutPerResource ==
    last.kind = "tick" =>
        \A k \in ReconcilerRuns : \A j1, j2 \in RunPuts(k) :
            last.puts[j1].rid = last.puts[j2].rid => j1 = j2

-----------------------------------------------------------------------------
(* The provisioning gate *)

\* the calls of is_resource_ready in the last tick
ReadyChecks == {i \in DOMAIN last.log : last.log[i].ev = "ready"}

\* the reset calls is_resource_ready made when asked at log entry i
ResetCalls(i) ==
    {c \in DOMAIN last.calls :
        last.calls[c].at = i /\ last.calls[c].description = "resource reset"}

\* the calls of safe_arm_put on the resource asked about at log entry i
\* that the reconciler asking made
RunCallsOn(i) ==
    {c \in DOMAIN last.calls :
        /\ last.calls[c].rid = last.log[i].rid
        /\ CallerEnd(last.log, last.calls[c].at) = CallerEnd(last.log, i)}

\* the reconciler that asked at log entry i returned work remaining, unless
\* a request error ended it
WorkRemainsAfter(i) ==
    last.log[CallerEnd(last.log, i)].raised \/ last.log[CallerEnd(last.log, i)].ret

\* the resource asked about at log entry i was handed to safe_arm_put
\* resets times, as fetched (the enhanced PUT of a resource with edge-zone
\* context carries the extendedLocation besides), and in no other call of
\* the reconciler that asked
GateAt(i, resets) ==
    /\ Cardinality(ResetCalls(i)) = resets
    /\ RunCallsOn(i) = ResetCalls(i)
    /\ \A c \in ResetCalls(i) :
           /\ last.calls[c].rid = last.log[i].rid
           /\ last.calls[c].body = last.pre[last.log[i].rid]
           /\ \A j \in last.calls[c].first..last.calls[c].lastreq :
                  last.puts[j].body =
                      IF last.puts[j].what = "enhanced"
                      THEN EnhancedBody(last.pre[last.log[i].rid], last.calls[c].ctx)
                      ELSE last.pre[last.log[i].rid]
    /\ WorkRemainsAfter(i)

\* C24: is_resource_ready lets the reconciler go on only for
\* provisioningState Succeeded and then sends nothing; for Failed it makes
\* one safe_arm_put call with the same object to the resource's own id;
\* for any other state it sends nothing.  For a resource not Succeeded the
\* reconciler makes no other write of it in the tick and returns work
\* remaining, unless a request error (of the reset or of a later write)
\* leaves the reconciler as an exception.
C24_ProvisioningGate ==
    last.kind = "tick" =>
        \A i \in ReadyChecks :
            CASE last.log[i].state = "Succeeded" -> ResetCalls(i) = {}
              [] last.log[i].state = "Failed" -> GateAt(i, 1)
              [] OTHER -> GateAt(i, 0)

\* a Failed route table: one PUT of the table as fetched, no rewrite of its
\* routes although one is due, work remaining
C24_Witness ==
    /\ last.kind = "tick"
    /\ \E i \in ReadyChecks :
           /\ last.log[i].rid \in RtIds
           /\ last.log[i].state = "Failed"
           /\ IsDirty(last.pre[last.log[i].rid].routes, last.confBefore["addresses"])
           /\ Cardinality(ResetCalls(i)) = 1
           /\ ~last.log[CallerEnd(last.log, i)].raised
           /\ last.log[CallerEnd(last.log, i)].ret

\* the PUT requests sent for the reset asked for at log entry i
ResetPuts(i) ==
    {j \in DOMAIN last.puts :
        \E c \in ResetCalls(i) : j \in last.calls[c].first..last.calls[c].lastreq}

\* C24 as stated: for Failed one PUT request of the same object and the
\* answer not ready, so the reconciler returns work remaining.
C24_OneResetPut ==
    last.kind = "tick" =>
        \A i \in ReadyChecks :
            last.log[i].state = "Failed" =>
                /\ Cardinality(ResetPuts(i)) = 1
                /\ \A j \in ResetPuts(i) : last.puts[j].body = last.pre[last.log[i].rid]
                /\ ~last.log[CallerEnd(last.log, i)].raised
                /\ last.log[CallerEnd(last.log, i)].ret

-----------------------------------------------------------------------------
(* The readiness gate of the VIP reconciler *)

\* the NIC of member vm on the interface of entry e was Succeeded when the
\* tick fetched it
NicReady(vm, e) == last.pre[NicId(vm, e.cni)].state = "Succeeded"

\* the VIP reconciler of the last tick returned work remaining, or a
\* request error ended it
VipWorkRemains ==
    \A k \in ReconcilerRuns :
        last.log[k].f = "set_cluster_ips" => (last.log[k].raised \/ last.log[k].ret)

\* C25: for an interface the VIP reconciler visits, a peer NIC that is not
\* ready keeps both the VIP-removal PUT and the VIP-addition PUT from
\* being sent; a local NIC that is not ready keeps the addition from being
\* sent, but is looked at only after the peer NIC: the removal PUT on a
\* ready peer NIC holding a VIP of the interface is sent all the same.
\* In either case the reconciler returns work remaining unless a request
\* error ends it.
C25_ReadinessGate ==
    (last.kind = "tick" /\ VipReconcilerRan) =>
        \A n \in DOMAIN Entries(last.confBefore) :
            LET e == Entries(last.confBefore)[n]
                adds == CallsFor(NicId("me", e.cni), "my VIP addition")
                rems == CallsFor(NicId("peer", e.cni), "peer VIP removal")
            IN  /\ ~NicReady("peer", e) => (rems = {} /\ adds = {})
                /\ ~NicReady("me", e) => adds = {}
                /\ (~NicReady("me", e) /\ NicReady("peer", e) /\ Reached(e.cni))
                       => (rems # {} <=> PeerHoldsAny(last.pre, e))
                /\ (~NicReady("me", e) \/ ~NicReady("peer", e)) => VipWorkRemains

\* the local NIC is not ready, the peer NIC is and holds a VIP of the
\* interface: the removal PUT was sent
C25_Witness ==
    /\ last.kind = "tick"
    /\ VipReconcilerRan
    /\ \E n \in DOMAIN Entries(last.confBefore) :
           /\ ~NicReady("me", Entries(last.confBefore)[n])
           /\ NicReady("peer", Entries(last.confBefore)[n])
           /\ PeerHoldsAny(last.pre, Entries(last.confBefore)[n])
           /\ CallsFor(NicId("peer", Entries(last.confBefore)[n].cni),
                       "peer VIP removal") # {}

\* C25 as stated: with either NIC of an interface not ready, neither the
\* removal PUT nor the addition PUT of that interface is sent.
C25_NeitherPut ==
    (last.kind = "tick" /\ VipReconcilerRan) =>
        \A n \in DOMAIN Entries(last.confBefore) :
            (~NicReady("me", Entries(last.confBefore)[n])
             \/ ~NicReady("peer", Entries(last.confBefore)[n]))
                => /\ CallsFor(NicId("me", Entries(last.confBefore)[n].cni),
                               "my VIP addition") = {}
                   /\ CallsFor(NicId("peer", Entries(last.confBefore)[n].cni),
                               "peer VIP removal") = {}

-----------------------------------------------------------------------------
(* A reconciler raising *)

IsCall(e) == e.ev = "call"

\* the reconciler runs of the last tick, in order
Runs == SelectSeq(last.log, IsCall)

\* the reconcilers setLocalActive was to call in the last tick
Dispatched == Dispatch(templateName, last.confBefore)

\* the runs are the first reconcilers of the dispatch order, and only the
\* last of them may have raised
RunsInOrder ==
    /\ Len(Runs) <= Len(Dispatched)
    /\ \A k \in DOMAIN Runs : Runs[k].f = Dispatched[k]
    /\ \A k \in DOMAIN Runs : Runs[k].raised => k = Len(Runs)

\* C26: when a reconciler raises in an active tick the exception stays in
\* poll (the loop goes back to select), the reconcilers after it in the
\* dispatch order are not run, no DONE is written and conf['todo'] keeps
\* the value it had before the tick; the next active tick starts again
\* with the first reconciler of the dispatch order.
C26_ReconcilerRaises ==
    (last.kind = "tick" /\ pc # "handlers") =>
        /\ Aborted(last.log) =>
               /\ pc = "select"
               /\ last.handlers = <<"poll">>
               /\ RunsInOrder
               /\ Runs[Len(Runs)].raised
               /\ DoneWrites = {}
               /\ TodoUnchanged
        /\ (last.abortedBefore /\ ActivePoll) =>
               /\ Runs # <<>>
               /\ Runs[1].f = Dispatched[1]

\* a template with route tables, VIPs and NAT rules: the route reconciler
\* raised again in the tick after one it had raised in, the VIP and NAT
\* reconcilers did not run, and todo is still true
C26_Witness ==
    /\ last.kind = "tick"
    /\ pc = "select"
    /\ last.abortedBefore
    /\ Len(Dispatched) = 3
    /\ Len(Runs) = 1
    /\ Runs[1].f = "set_routing_tables"
    /\ Runs[1].raised
    /\ Get(last.confBefore, "todo", FALSE)
    /\ Get(conf, "todo", FALSE)
    /\ DoneWrites = {}

-----------------------------------------------------------------------------
(* The dispatch order of setLocalActive *)

\* the names of the reconcilers run in the last tick, in order
RunNames == [k \in DOMAIN Runs |-> Runs[k].f]

HasInterfaces == "clusterNetworkInterfaces" \in DOMAIN last.confBefore

\* C27: setLocalActive runs, for templateName ha or ha_terraform, the VIP
\* reconciler only; for any other template the route reconciler first,
\* then the VIP reconciler followed by the NAT-rule reconciler when
\* clusterNetworkInterfaces is in the config, and otherwise the public-IP
\* reconciler unless the template is stack-ha.
C27_Dispatch ==
    (last.kind = "tick" /\ ReachedSetLocalActive /\ ~Aborted(last.log)) =>
        CASE templateName \in {"ha", "ha_terraform"} ->
                 RunNames = <<"set_cluster_ips">>
          [] templateName \notin {"ha", "ha_terraform"} /\ HasInterfaces ->
                 RunNames = <<"set_routing_tables", "set_cluster_ips", "set_lb_nat_rules">>
          [] templateName \notin {"ha", "ha_terraform", "stack-ha"} /\ ~HasInterfaces ->
                 RunNames = <<"set_routing_tables", "set_public_address">>
          [] OTHER -> RunNames = <<"set_routing_tables">>

\* template stack-ha without clusterNetworkInterfaces: the route
\* reconciler ran, alone, and wrote the route table
C27_Witness ==
    /\ last.kind = "tick"
    /\ templateName = "stack-ha"
    /\ ~HasInterfaces
    /\ RunNames = <<"set_routing_tables">>
    /\ ~Aborted(last.log)
    /\ last.puts # <<>>

-----------------------------------------------------------------------------
(* The todo flag *)

\* some reconciler run of the last tick returned work remaining
AnyWorkRemains == \E k \in DOMAIN Runs : Runs[k].ret

\* C28: after a tick in which every dispatched reconciler returns,
\* conf['todo'] is the logical OR of their work-remains results, and every
\* dispatched reconciler was run, also after one that reported work
\* remaining.
C28_TodoIsOr ==
    (last.kind = "tick" /\ ReachedSetLocalActive /\ ~Aborted(last.log)) =>
        /\ RunNames = Dispatched
        /\ "todo" \in DOMAIN conf
        /\ conf["todo"] = AnyWorkRemains

\* three reconcilers: the first reported work remaining, the others ran
\* all the same and the last reported none; todo is true
C28_Witness ==
    /\ last.kind = "tick"
    /\ ~Aborted(last.log)
    /\ Len(Runs) = 3
    /\ Runs[1].ret
    /\ ~Runs[3].ret
    /\ Get(conf, "todo", FALSE)

-----------------------------------------------------------------------------
(* The cases of the NAT-rule reconciler *)

\* the runs of the NAT-rule reconciler in the last tick
NatRuns == {k \in ReconcilerRuns : last.log[k].f = "set_lb_nat_rules"}

\* target: the ids, in lower case, of the load balancer's inbound NAT rules
\* whose name in lower case starts with cluster-vip
Target ==
    IF "lbName" \in DOMAIN last.confBefore /\ lb.exists
    THEN {Lower(r) : r \in {x \in lb.inboundNatRules : StartsWithClusterVip(Lower(x))}}
    ELSE {}

\* the rules of a member's primary ipConfiguration, in lower case
PrimaryRules(vm) == {Lower(r) : r \in last.pre[GetVmPrimaryNic(vm)].ipcs[1].nat}

\* the readiness checks and the calls of safe_arm_put of reconciler run k
ChecksOf(k) == {i \in ReadyChecks : CallerEnd(last.log, i) = k}
CallsOf(k) == {c \in DOMAIN last.calls : CallerEnd(last.log, last.calls[c].at) = k}

\* run k found the primary NICs of both members ready
BothReady(k) ==
    /\ Cardinality(ChecksOf(k)) = 2
    /\ \A i \in ChecksOf(k) : last.log[i].state = "Succeeded"

\* run k sent nothing and reported no work
NoOp(k) == CallsOf(k) = {} /\ ~last.log[k].raised /\ ~last.log[k].ret

\* run k made one call, on the primary NIC of vm, with rules as the rules
\* of its primary ipConfiguration, and reported work remaining unless the
\* call raised
WroteRules(k, vm, rules) ==
    /\ Cardinality(CallsOf(k)) = 1
    /\ \A c \in CallsOf(k) :
           /\ last.calls[c].rid = GetVmPrimaryNic(vm)
           /\ last.calls[c].body.ipcs[1].nat = rules
           /\ last.calls[c].body.ipcs[1].pub = last.pre[GetVmPrimaryNic(vm)].ipcs[1].pub
           /\ last.log[k].raised <=> last.calls[c].kind = "raise"
    /\ last.log[k].raised \/ last.log[k].ret

\* the peer's rules whose id's last segment does not start with
\* cluster-vip
PeerRulesKept ==
    {r \in last.pre[GetVmPrimaryNic("peer")].ipcs[1].nat : ~StartsWithClusterVip(Lower(r))}

\* C29: the NAT-rule reconciler sends no PUT and reports no work when the
\* load balancer answers 404 or there are no target rules; with target
\* rules it first asks whether the two primary NICs are ready, and with
\* both ready it sends no PUT and reports no work when target is a subset
\* of the local rules, else PUTs only the peer NIC, its cluster-vip rules
\* removed, when target intersects the peer's rules, else PUTs only the
\* local NIC with the local rules united with target; both PUT cases
\* report work remaining.
C29_NatCases ==
    last.kind = "tick" =>
        \A k \in NatRuns :
            /\ Target = {} => (NoOp(k) /\ ChecksOf(k) = {})
            /\ (Target # {} /\ BothReady(k)) =>
                   CASE Target \subseteq PrimaryRules("me") -> NoOp(k)
                     [] Target \cap PrimaryRules("peer") # {}
                        /\ ~(Target \subseteq PrimaryRules("me")) ->
                            WroteRules(k, "peer", PeerRulesKept)
                     [] OTHER -> WroteRules(k, "me", PrimaryRules("me") \cup Target)

\* the target rule, named Cluster-VIP-https by the load balancer, sits on
\* the peer NIC beside another rule: the peer NIC is written with the other
\* rule only
C29_Witness ==
    /\ last.kind = "tick"
    /\ \E k \in NatRuns :
           /\ BothReady(k)
           /\ Target = {"cluster-vip-https"}
           /\ "Cluster-VIP-https" \in lb.inboundNatRules
           /\ WroteRules(k, "peer", {"web"})
           /\ last.log[k].ret

\* C29 as stated: no PUT and no work whenever target is a subset of the
\* local rules.
C29_SubsetIsNoOp ==
    last.kind = "tick" =>
        \A k \in NatRuns : Target \subseteq PrimaryRules("me") => NoOp(k)

-----------------------------------------------------------------------------
(* What "no work remains" means for the public-IP reconciler *)

\* the runs of the public-IP reconciler in the last tick that returned
\* False
PublicRunsDone ==
    {k \in ReconcilerRuns :
        /\ last.log[k].f = "set_public_address"
        /\ ~last.log[k].raised
        /\ ~last.log[k].ret}

\* the load balancer's inbound NAT rules whose name does not begin with
\* checkpoint-
OtherRules ==
    IF "lbName" \in DOMAIN conf /\ lb.exists
    THEN {Lower(r) : r \in {x \in lb.inboundNatRules : ~StartsWithCheckpoint(x)}}
    ELSE {}

\* the public address of a member's primary ipConfiguration
PrimaryPublic(vm) == res[GetVmPrimaryNic(vm)].ipcs[1].pub

-----------------------------------------------------------------------------
(* Route tables of peered VNets *)

PeeredRt == <<"rt", "rt2">>
TableAccess == {"ok", "denied", "readonly", "gone"}
Peering(state) == [remoteVirtualNetwork |-> VnetRid("vnet2"), peeringState |-> state]
PeeringLists == {<<>>, <<Peering("Connected")>>, <<Peering("Disconnected")>>}
\* the subnets' route tables: of the local VNet, of the peered one
Layouts == {<<<<RtId>>, <<PeeredRt>>>>, <<<<PeeredRt>>, <<RtId>>>>,
            <<<<RtId, PeeredRt>>, <<PeeredRt>>>>}

\* Two route tables over a local and a peered VNet, each table readable and
\* writable or not; template stack-ha without clusterNetworkInterfaces runs
\* the route reconciler alone.
InitPeerings ==
    /\ templateName = "stack-ha"
    /\ conf = [addresses |-> Addresses, vnetId |-> "vnet1"]
    /\ \E routes \in {<<TrafficRoute>>, <<PeerHostRoute>>},
          a1 \in TableAccess, a2 \in TableAccess, layout \in Layouts,
          peerings \in PeeringLists, local \in {"ok", "fails"},
          remote \in {"ok", "fails"} :
           res = [rid \in NicIds \cup {RtId, PeeredRt, VnetRid("vnet1"), VnetRid("vnet2")} |->
                     IF rid = RtId THEN [RouteTable(routes) EXCEPT !.access = a1]
                     ELSE IF rid = PeeredRt
                     THEN [RouteTable(<<TrafficRoute>>) EXCEPT !.access = a2]
                     ELSE IF rid = VnetRid("vnet1")
                     THEN [Vnet(layout[1], peerings) EXCEPT !.access = local]
                     ELSE IF rid = VnetRid("vnet2")
                     THEN [Vnet(layout[2], <<>>) EXCEPT !.access = remote]
                     ELSE PlainPair[rid[1]]]
    /\ lb = NoLb
    /\ pip = FALSE
    /\ last = EmptyLast
    /\ ticks = NoTicks
    /\ pc = "select"
    /\ sock = <<>>

SpecPeerings == InitPeerings /\ [][Next]_vars

\* the runs of the route reconciler in the last tick
RouteRuns == {k \in ReconcilerRuns : last.log[k].f = "set_routing_tables"}

\* the route tables the pass has to walk: those of the local VNet's subnets
\* and those of every peered VNet that is Connected and can be fetched
ToWalk ==
    LET vnet == last.pre[VnetRid("vnet1")]
    IN  SeqToSet(vnet.tables)
        \cup UNION {SeqToSet(last.pre[vnet.peerings[i].remoteVirtualNetwork].tables) :
                      i \in {j \in DOMAIN vnet.peerings :
                               /\ vnet.peerings[j].peeringState = "Connected"
                               /\ last.pre[vnet.peerings[j].remoteVirtualNetwork].access
                                      = "ok"}}

\* run k fetched table t and went through it: it asked for its readiness
\* and, the table ready and in need of a rewrite, sent the update
WentThrough(k, t) ==
    /\ \E i \in ChecksOf(k) : last.log[i].rid = t
    /\ (last.pre[t].state = "Succeeded"
          /\ IsDirty(last.pre[t].routes, last.confBefore["addresses"]))
        => \E c \in CallsOf(k) : /\ last.calls[c].rid = t
                                 /\ last.calls[c].description = "route table update"

\* an error other than 401/403 met run k on a route table
OtherError(k) ==
    \/ \E t \in ToWalk : last.pre[t].access = "gone"
    \/ \E c \in CallsOf(k) : last.puts[last.calls[c].lastreq].ans = "err"

\* C31: a 401 or 403 on the GET or the PUT of a route table, a peering that
\* is not Connected and a failed GET of a peered VNet never end the pass:
\* unless another error on a route table is raised out of it, the pass goes
\* through every route table it can fetch, those of the local VNet
\* included, in the same tick.  Another request error on a table is raised
\* out of the pass and is the last thing the pass does.
C31_PassGoesOn ==
    (last.kind = "tick" /\ pc # "handlers"
        /\ last.pre[VnetRid("vnet1")].access = "ok") =>
        \A k \in RouteRuns :
            /\ last.log[k].raised => OtherError(k)
            /\ \A c \in CallsOf(k) :
                   last.puts[last.calls[c].lastreq].ans = "err"
                       => /\ last.log[k].raised
                          /\ \A c2 \in CallsOf(k) : c2 <= c
            /\ ~last.log[k].raised =>
                   \A t \in ToWalk :
                       last.pre[t].access \in {"ok", "readonly"} => WentThrough(k, t)

\* A pass that was answered 403 on the PUT of one table, had a peered VNet
\* to walk, and then updated a table of the local VNet.
C31_Witness ==
    /\ last.kind = "tick"
    /\ pc # "handlers"
    /\ last.pre[VnetRid("vnet1")].access = "ok"
    /\ \E k \in RouteRuns :
        /\ ~last.log[k].raised
        /\ \E c1 \in CallsOf(k), c2 \in CallsOf(k) :
            /\ c1 < c2
            /\ last.calls[c1].kind = "raise"
            /\ last.puts[last.calls[c1].lastreq].ans = "403"
            /\ last.calls[c2].kind = "response"
            /\ last.calls[c2].rid \in SeqToSet(last.pre[VnetRid("vnet1")].tables)
            /\ last.calls[c2].rid # last.calls[c1].rid

-----------------------------------------------------------------------------
(* The interfaces key of the configuration *)

\* the loads of the step whose configuration lacks clusterNetworkInterfaces
LoadsWithout ==
    {i \in Reloads : "clusterNetworkInterfaces" \notin DOMAIN last'.log[i].c}

\* the step's log has poll entered after log entry i
ReachedPollAfter(i) == \E j \in DOMAIN last'.log : j > i /\ last'.log[j].ev = "poll"

\* C32: a reload that reaches poll leaves clusterNetworkInterfaces in the
\* config: a load whose configuration lacks the key fails before poll
\* unless the config held the key from an earlier load, the key is never
\* removed, the daemon past main always holds it, and no tick and no reload
\* runs the public-IP reconciler set_public_address.
C32_InterfacesKept ==
    [][/\ "clusterNetworkInterfaces" \in DOMAIN conf
              => "clusterNetworkInterfaces" \in DOMAIN conf'
       /\ \A i \in Reloads :
              ReachedPollAfter(i) => "clusterNetworkInterfaces" \in DOMAIN conf'
       /\ \A i \in LoadsWithout :
              "clusterNetworkInterfaces" \notin DOMAIN conf
                  => ~ReachedPollAfter(i) /\ pc' = "main"
       /\ pc' # "main" => "clusterNetworkInterfaces" \in DOMAIN conf'
       /\ \A i \in DOMAIN last'.log :
              last'.log[i].ev = "call" => last'.log[i].f # "set_public_address"]_vars

\* The daemon started on a load without clusterNetworkInterfaces, of a
\* template other than ha and stack-ha: an earlier load that failed had
\* supplied the key, and the poll of the reload, the member active, ran the
\* VIP and NAT-rule reconcilers.
C32_Witness ==
    /\ last.kind = "main"
    /\ pc = "select"
    /\ templateName = "ha_lb"
    /\ "clusterNetworkInterfaces" \in DOMAIN conf
    /\ \E i \in DOMAIN last.log :
           /\ last.log[i].ev = "reconf"
           /\ "c" \in DOMAIN last.log[i]
           /\ "clusterNetworkInterfaces" \notin DOMAIN last.log[i].c
           /\ \E j \in DOMAIN last.log :
                  j > i /\ last.log[j].ev = "call" /\ last.log[j].f = "set_lb_nat_rules"

-----------------------------------------------------------------------------
(* What the VIP reconciler's PUTs change *)

\* the VIP names, in lower case, configured for the interface of NIC rid
VipNamesOf(rid) ==
    UNION {{Lower(Entries(last.confBefore)[n].vips[j].name) :
               j \in DOMAIN Entries(last.confBefore)[n].vips} :
             n \in {m \in DOMAIN Entries(last.confBefore) :
                      Entries(last.confBefore)[m].cni = rid[2]}}

\* short is long with some entries named in names left out, the others in
\* their order and unchanged
RECURSIVE LeavesOut(_, _, _)
LeavesOut(short, long, names) ==
    IF long = <<>> THEN short = <<>>
    ELSE \/ /\ short # <<>>
            /\ Head(short) = Head(long)
            /\ LeavesOut(Tail(short), Tail(long), names)
         \/ /\ Lower(Head(long).name) \in names
            /\ LeavesOut(short, Tail(long), names)

\* long is short followed by one entry or more, each named in names and by
\* a name short does not hold
AppendsTo(long, short, names) ==
    /\ Len(long) > Len(short)
    /\ SubSeq(long, 1, Len(short)) = short
    /\ \A i \in (Len(short) + 1)..Len(long) :
           /\ Lower(long[i].name) \in names
           /\ \A j \in DOMAIN short : Lower(short[j].name) # Lower(long[i].name)

\* the calls of safe_arm_put of the last tick that remove VIPs from a peer
\* NIC or add VIPs to a local NIC
RemovalCalls == {c \in DOMAIN last.calls : last.calls[c].description = "peer VIP removal"}
AdditionCalls == {c \in DOMAIN last.calls : last.calls[c].description = "my VIP addition"}

\* nic is the NIC the tick fetched for call c but for its ipConfigurations
OnlyIpcsChanged(c, nic) ==
    [nic EXCEPT !.ipcs = last.pre[last.calls[c].rid].ipcs] = last.pre[last.calls[c].rid]

\* the PUT requests of call c
RequestsOf(c) == last.calls[c].first..last.calls[c].lastreq

\* C33: the body the VIP reconciler hands to safe_arm_put for a peer NIC is
\* the NIC as fetched less ipConfigurations named, in any case, like a VIP
\* configured for the interface; the body for a local NIC is the NIC as
\* fetched with ipConfigurations appended at the end for configured VIPs it
\* lacked; every other ipConfiguration and every other field is as
\* fetched.  A request carries that body, the enhanced request of a NIC
\* with edge-zone context that body with extendedLocation set.
C33_OnlyVipEntries ==
    (last.kind = "tick" /\ pc # "handlers") =>
        /\ \A c \in RemovalCalls :
               /\ last.calls[c].rid[1] = "peer"
               /\ OnlyIpcsChanged(c, last.calls[c].body)
               /\ last.calls[c].body.ipcs # last.pre[last.calls[c].rid].ipcs
               /\ LeavesOut(last.calls[c].body.ipcs, last.pre[last.calls[c].rid].ipcs,
                            VipNamesOf(last.calls[c].rid))
        /\ \A c \in AdditionCalls :
               /\ last.calls[c].rid[1] = "me"
               /\ OnlyIpcsChanged(c, last.calls[c].body)
               /\ AppendsTo(last.calls[c].body.ipcs, last.pre[last.calls[c].rid].ipcs,
                            VipNamesOf(last.calls[c].rid))
        /\ \A c \in RemovalCalls \cup AdditionCalls :
               \A j \in RequestsOf(c) :
                   last.puts[j].body =
                       IF last.puts[j].what = "enhanced"
                       THEN EnhancedBody(last.calls[c].body, last.calls[c].ctx)
                       ELSE last.calls[c].body

\* A tick that removed a VIP, written in another case than configured, from
\* the peer NIC of an interface, which keeps its primary ipConfiguration;
\* the cloud answered 200.
C33_Witness ==
    /\ last.kind = "tick"
    /\ pc # "handlers"
    /\ \E c \in RemovalCalls :
           /\ Len(last.calls[c].body.ipcs) >= 1
           /\ last.calls[c].kind = "response"
           /\ \E i \in DOMAIN last.pre[last.calls[c].rid].ipcs :
                  /\ last.pre[last.calls[c].rid].ipcs[i].name = "Cluster-VIP"
                  /\ \A k \in DOMAIN last.calls[c].body.ipcs :
                         last.calls[c].body.ipcs[k].name # "Cluster-VIP"

\* C33 as stated: every PUT request of the VIP reconciler carries the NIC
\* as fetched but for its ipConfigurations.
C33_RequestsOnlyVipEntries ==
    (last.kind = "tick" /\ pc # "handlers") =>
        \A c \in RemovalCalls \cup AdditionCalls :
            \A j \in RequestsOf(c) : OnlyIpcsChanged(c, last.puts[j].body)

=============================================================================
